---------------------------- MODULE Spec2Model ----------------------------
(***************************************************************************)
(* TSOPPI SADET (SAmple Data Extraction Tool): a model of SADET.py and of  *)
(* resources/software/TSOPPI_shared_functions.py.                          *)
(*                                                                         *)
(* Strings that the program takes apart (sample IDs, allow-list entries,   *)
(* path components) are sequences of one-character strings; a file path    *)
(* is the sequence of its components ("/m/r/p1/x" is <<m, r, p1, x>>).     *)
(* A Python dict is a sequence of [path, status] records with distinct     *)
(* paths: the sequence order is the dict's insertion (iteration) order.    *)
(***************************************************************************)
EXTENDS Integers, Sequences, FiniteSets, TLC

(***************************************************************************)
(* Bounds of the model.                                                    *)
(***************************************************************************)
\* number of entries directly below the input data directory
NumL1 == 2
\* depth of the listing below each first-level directory
MaxDepth == 2
\* number of rows of the extraction path pattern file
MaxRows == 2
\* length of the IDs given to find_ID_match
MaxIDLen == 2
\* number of approved IDs given to find_ID_match
MaxListLen == 2

(***************************************************************************)
(* Strings.                                                                *)
(***************************************************************************)
IsPrefix(p, s) ==
    /\ Len(p) <= Len(s)
    /\ \A i \in 1..Len(p) : p[i] = s[i]

\* str.startswith
StartsWith(s, p) == IsPrefix(p, s)

Digits == {"0", "1", "2", "3", "4", "5", "6", "7", "8", "9"}

(***************************************************************************)
(* TSOPPI_shared_functions.py                                              *)
(***************************************************************************)
\* str.startswith on paths: the last component of the prefix may end
\* inside a component of the path ("/m/r/" is <<m, r, "">>)
PathStartsWith(s, p) ==
    \/ p = <<>>
    \/ /\ Len(p) <= Len(s)
       /\ \A i \in 1..(Len(p) - 1) : p[i] = s[i]
       /\ IsPrefix(p[Len(p)], s[Len(p)])

\* file_path[len(path_prefix):]
PathAfter(s, p) ==
    IF p = <<>> THEN s
    ELSE << SubSeq(s[Len(p)], Len(p[Len(p)]) + 1, Len(s[Len(p)])) >>
         \o SubSeq(s, Len(p) + 1, Len(s))

\* strip_path_prefix: (prefix present, stripped path)
strip_path_prefix(file_path, path_prefix) ==
    IF PathStartsWith(file_path, path_prefix)
    THEN <<TRUE, PathAfter(file_path, path_prefix)>>
    ELSE <<FALSE, <<"NA">>>>

\* PrefixMatches with the prefix test the other way round
RECURSIVE PrefixMatchesReversed(_, _, _)
PrefixMatchesReversed(sample_id, approved_ids, k) ==
    IF k > Len(approved_ids) THEN <<>>
    ELSE (IF StartsWith(approved_ids[k], sample_id)
          THEN <<approved_ids[k]>> ELSE <<>>)
         \o PrefixMatchesReversed(sample_id, approved_ids, k + 1)

\* the list comprehension of find_ID_match, over approved_ids[k..]
RECURSIVE PrefixMatches(_, _, _)
PrefixMatches(sample_id, approved_ids, k) ==
    IF k > Len(approved_ids) THEN <<>>
    ELSE (IF StartsWith(sample_id, approved_ids[k])
          THEN <<approved_ids[k]>> ELSE <<>>)
         \o PrefixMatches(sample_id, approved_ids, k + 1)

find_ID_match(sample_id, approved_ids, method) ==
    IF method = "prefix" THEN PrefixMatches(sample_id, approved_ids, 1)
    ELSE <<>>

\* is_InPreD_ID: the InPreD nomenclature version 3 regular expression
\* ^IP[ADHO][0-9]{4}-[CDR](0[1-7]|50|51)-[ACDdEeLMNPpRrTX][0-9]{2}-[ABCEFMS]([0-2][0-9]|30|XX)$
is_InPreD_ID(s) ==
    /\ Len(s) = 19
    /\ s[1] = "I" /\ s[2] = "P"
    /\ s[3] \in {"A", "D", "H", "O"}
    /\ \A i \in 4..7 : s[i] \in Digits
    /\ s[8] = "-"
    /\ s[9] \in {"C", "D", "R"}
    /\ \/ s[10] = "0" /\ s[11] \in {"1", "2", "3", "4", "5", "6", "7"}
       \/ s[10] = "5" /\ s[11] \in {"0", "1"}
    /\ s[12] = "-"
    /\ s[13] \in {"A", "C", "D", "d", "E", "e", "L", "M", "N", "P", "p",
                  "R", "r", "T", "X"}
    /\ s[14] \in Digits /\ s[15] \in Digits
    /\ s[16] = "-"
    /\ s[17] \in {"A", "B", "C", "E", "F", "M", "S"}
    /\ \/ s[18] \in {"0", "1", "2"} /\ s[19] \in Digits
       \/ s[18] = "3" /\ s[19] = "0"
       \/ s[18] = "X" /\ s[19] = "X"

(***************************************************************************)
(* Paths (pathlib) and the ordered dict of path statuses.                  *)
(***************************************************************************)
\* str(Path(p).parents[0])
Parent(p) == SubSeq(p, 1, Len(p) - 1)

IsStrictAncestor(a, p) == Len(a) < Len(p) /\ IsPrefix(a, p)

DictKeys(d) == {d[i].path : i \in DOMAIN d}

DictHas(d, p) == \E i \in DOMAIN d : d[i].path = p

DictGet(d, p) == d[CHOOSE i \in DOMAIN d : d[i].path = p].status

\* d[p] = v
DictSet(d, p, v) ==
    IF DictHas(d, p)
    THEN [d EXCEPT ![CHOOSE i \in DOMAIN d : d[i].path = p] =
                       [path |-> p, status |-> v]]
    ELSE Append(d, [path |-> p, status |-> v])

\* a | b
RECURSIVE DictMerge(_, _)
DictMerge(a, b) ==
    IF b = <<>> THEN a
    ELSE DictMerge(DictSet(a, Head(b).path, Head(b).status), Tail(b))

\* {item: "S" for item in listing}: glob lists no path twice
DictOfListing(listing) ==
    [i \in DOMAIN listing |-> [path |-> listing[i], status |-> "S"]]

\* DictDel that deletes nothing
DictDelNothing(d, p) == d

\* del d[p]
DictDel(d, p) == SelectSeq(d, LAMBDA r : r.path # p)

(***************************************************************************)
(* Path patterns.  A pattern is a regular expression over a path; it is    *)
(* modelled at the granularity of path components, as a sequence of        *)
(* tokens:                                                                 *)
(*   lit   a literal component                                             *)
(*   any   [^/]+   one component, whatever its name                        *)
(*   deep  .+      one or more components                                  *)
(*   ph    ${NAME}suffix, a placeholder followed by literal text           *)
(***************************************************************************)
Lit(c) == [t |-> "lit", ph |-> "", v |-> c]
AnyTok == [t |-> "any", ph |-> "", v |-> <<>>]
DeepTok == [t |-> "deep", ph |-> "", v |-> <<>>]
Ph(name, suffix) == [t |-> "ph", ph |-> name, v |-> suffix]

\* pattern.replace("${NAME}", value)
Replace(pattern, name, value) ==
    [i \in DOMAIN pattern |->
        IF pattern[i].t = "ph" /\ pattern[i].ph = name
        THEN Lit(value \o pattern[i].v)
        ELSE pattern[i]]

\* the literal prefix base_path + "/" of a compiled pattern
LitPath(p) == [i \in DOMAIN p |-> Lit(p[i])]

\* re.fullmatch(pattern, path): the whole path has to match.  A placeholder
\* that was not substituted matches no component.
RECURSIVE FullMatch(_, _)
FullMatch(pattern, path) ==
    IF pattern = <<>> THEN path = <<>>
    ELSE IF path = <<>> THEN FALSE
    ELSE LET tok == Head(pattern) IN
         CASE tok.t = "lit" -> tok.v = Head(path)
                                /\ FullMatch(Tail(pattern), Tail(path))
           [] tok.t = "any" -> FullMatch(Tail(pattern), Tail(path))
           [] tok.t = "deep" ->
                \E k \in 1..Len(path) :
                    FullMatch(Tail(pattern), SubSeq(path, k + 1, Len(path)))
           [] OTHER -> FALSE


\* MatchingPaths that leaves out the paths that are Export already
MatchingPathsNotYetExport(path_pattern, path_dict) ==
    LET m == SelectSeq(path_dict,
                       LAMBDA r : FullMatch(path_pattern, r.path) /\ r.status # "E")
    IN  [i \in DOMAIN m |-> m[i].path]

\* MatchingPaths with re.match: the pattern has to match a prefix of the path
MatchingPathsByPrefix(path_pattern, path_dict) ==
    LET m == SelectSeq(path_dict,
                       LAMBDA r : \E k \in 1..Len(r.path) :
                                      FullMatch(path_pattern, SubSeq(r.path, 1, k)))
    IN  [i \in DOMAIN m |-> m[i].path]

\* matching_paths: the keys of path_dict that match, in the dict's order
MatchingPaths(path_pattern, path_dict) ==
    LET m == SelectSeq(path_dict, LAMBDA r : FullMatch(path_pattern, r.path))
    IN  [i \in DOMAIN m |-> m[i].path]

(***************************************************************************)
(* SADET.py: reclassify_matching_paths                                     *)
(***************************************************************************)
\* MarkParents that marks only the directory holding the path
MarkParentsOneLevel(path_dict, parent_path, base_path) ==
    IF parent_path # base_path /\ DictHas(path_dict, parent_path)
    THEN DictSet(path_dict, parent_path, "I")
    ELSE path_dict

\* the while loop: mark directories on the path to a matching file as "I"
RECURSIVE MarkParents(_, _, _)
MarkParents(path_dict, parent_path, base_path) ==
    IF parent_path = base_path THEN path_dict
    ELSE IF DictHas(path_dict, parent_path)
    THEN MarkParents(DictSet(path_dict, parent_path, "I"),
                     Parent(parent_path), base_path)
    ELSE path_dict

\* MarkExport for which a matching directory is "I" as the directories
\* above it
MarkExportDirsIgnored(path_dict, available_path, base_path) ==
    MarkParents(DictSet(path_dict, available_path,
                        IF \E i \in DOMAIN path_dict :
                               IsStrictAncestor(available_path, path_dict[i].path)
                        THEN "I" ELSE "E"),
                Parent(available_path), base_path)

\* one iteration of the for loop over matching_paths
MarkExport(path_dict, available_path, base_path) ==
    MarkParents(DictSet(path_dict, available_path, "E"),
                Parent(available_path), base_path)

RECURSIVE MarkAll(_, _, _)
MarkAll(path_dict, matching_paths, base_path) ==
    IF matching_paths = <<>> \/ path_dict = <<>> THEN path_dict
    ELSE MarkAll(MarkExport(path_dict, Head(matching_paths), base_path),
                 Tail(matching_paths), base_path)

\* reclassify_matching_paths that returns the number of paths with status
\* "E" after the call
reclassify_matching_pathsCountExported(path_pattern, path_dict, base_path) ==
    LET matching_paths == MatchingPaths(path_pattern, path_dict)
        marked == MarkAll(path_dict, matching_paths, base_path)
    IN  [dict |-> marked,
         count |-> Len(SelectSeq(marked, LAMBDA r : r.status = "E"))]

\* the dict after the call, and the returned number of matches
reclassify_matching_paths(path_pattern, path_dict, base_path) ==
    LET matching_paths == MatchingPaths(path_pattern, path_dict) IN
    [dict |-> MarkAll(path_dict, matching_paths, base_path),
     count |-> Len(matching_paths)]


(***************************************************************************)
(* The inputs of a run: the directory tree, the ID list, the pattern file  *)
(* and the sample manifests are drawn from the small sets below.           *)
(***************************************************************************)
cM == <<"m">>
cR == <<"r">>
cX == <<"x">>
EmptyComp == <<>>

\* a sample ID that follows the InPreD nomenclature, and one that does not
IDG == <<"I", "P", "D", "0", "0", "0", "1", "-", "R", "0", "1", "-",
         "T", "0", "1", "-", "S", "0", "1">>
IDS == <<"S", "I", "D", "1">>
PfxIP == <<"I", "P", "D", "0", "0", "0", "1">>
PfxS == <<"S", "I", "D">>

\* the input data directory, as seen in the container: "/m/r"
input_dir_cont_path == <<cM, cR>>

\* Path(input_dir_cont_path).name
outfile_dir_name == input_dir_cont_path[Len(input_dir_cont_path)]

DigitSeq == <<"1", "2", "3", "4", "5", "6", "7", "8", "9">>

\* the i-th entry of the input data directory: "/m/r/p<i>"
L1Path(i) == input_dir_cont_path \o << <<"p", DigitSeq[i]>> >>

\* the names found in every directory below the first level
SubNameSeq == <<cX, IDG>>

\* glob.glob(dir + "/**", recursive = True) without its first item: every
\* directory is followed by its content (depth levels of it)
RECURSIVE GlobBelow(_, _, _)
GlobBelow(dir, depth, k) ==
    IF depth = 0 \/ k > Len(SubNameSeq) THEN <<>>
    ELSE << dir \o <<SubNameSeq[k]>> >>
         \o GlobBelow(dir \o <<SubNameSeq[k]>>, depth - 1, 1)
         \o GlobBelow(dir, depth, k + 1)

\* glob.glob(dir + "/**", recursive = True) of a first-level directory:
\* "dir/" comes first
GlobL1(i) == << L1Path(i) \o <<EmptyComp>> >> \o GlobBelow(L1Path(i), MaxDepth, 1)

\* glob.glob(input_dir_cont_path + "/**", recursive = True)
RECURSIVE GlobEntries(_, _)
GlobEntries(kind, i) ==
    IF i > NumL1 THEN <<>>
    ELSE << L1Path(i) >>
         \o (IF kind[i] = "dir" THEN GlobBelow(L1Path(i), MaxDepth, 1) ELSE <<>>)
         \o GlobEntries(kind, i + 1)

GlobRoot(kind) == << input_dir_cont_path \o <<EmptyComp>> >> \o GlobEntries(kind, 1)

\* every path that exists below the input data directory
AllPaths(kind) ==
    LET listing == GlobEntries(kind, 1) IN {listing[j] : j \in DOMAIN listing}

InputTypes == {"LocalApp", "TSOPPI"}

PatternCategories ==
    {"general_all", "general_bcl", "sample_DNA", "sample_RNA",
     "sample_DNA_bcl", "sample_RNA_bcl",
     "T_general", "T_any_DNA", "T_DNA_tumor_plus",
     "T_DNA_tumor", "T_DNA_normal", "T_RNA_tumor", "T_DNA_tumor_RNA_tumor"}

Row(type, min, cat, pat) ==
    [required_input_type |-> type, min_file_count |-> min,
     pattern_category |-> cat, path_pattern |-> pat]

\* the rows a pattern file may hold
PatternRows ==
    { Row("LocalApp", 1, "general_all", << Lit(<<"p", "1">>) >>),
      Row("LocalApp", 1, "general_bcl", << DeepTok, Lit(cX) >>),
      Row("LocalApp", 2, "sample_DNA", << AnyTok, DeepTok, Ph("SAMPLE_ID", <<>>) >>),
      Row("TSOPPI", 1, "T_general", << Lit(cX) >>),
      Row("TSOPPI", 1, "T_any_DNA", << DeepTok, Lit(cX) >>),
      Row("TSOPPI", 3, "T_DNA_tumor", << DeepTok, Ph("DT_SAMPLE_ID", <<>>) >>) }

SeqsUpTo(S, n) == UNION {[1..k -> S] : k \in 0..n}


\* the ID lists a run may be given (the loaded ID_prefix_list)
IDLists == { <<PfxIP>>, <<PfxS, PfxIP>> }

SampleRow(type, id) == [sample_type |-> type, sample_id |-> id]

\* the data rows of the sample_list.tsv of a patient directory
SampleLists ==
    { <<>>,
      << SampleRow("DNA_tumor", IDG) >>,
      << SampleRow("DNA_tumor", IDS) >>,
      << SampleRow("DNA_tumor", IDG), SampleRow("DNA_normal", IDS) >>,
      << SampleRow("RNA_tumor", IDG), SampleRow("DNA_tumor", IDG) >>,
      << SampleRow("DNA_tumor", IDG), SampleRow("DNA_tumor", IDG) >> }

SheetRow(type, id, pair) ==
    [sample_type |-> type, sample_id |-> id, pair_id |-> pair]

\* the header line of the data section of a sample sheet, and one that
\* lacks a required column
SheetColumns == <<"Sample_ID", "Sample_Type", "Pair_ID">>
SheetColumnsNoPair == <<"Sample_ID", "Sample_Type">>

Sheet(tag, columns, rows) ==
    [data_tag |-> tag, columns |-> columns, rows |-> rows]

\* the LocalApp sample sheets: the data section tag ("None": no data
\* section), the header line of the data section (<<>>: the section has
\* no line) and the data rows
SampleSheets ==
    { Sheet("None", <<>>, <<>>),
      Sheet("[Data]", <<>>, <<>>),
      Sheet("[Data]", SheetColumns, << SheetRow("DNA", IDG, PfxIP) >>),
      Sheet("[TSO500S_Data]", SheetColumns,
            << SheetRow("DNA", IDG, PfxIP), SheetRow("RNA", IDS, cX) >>),
      Sheet("[TSO500S_Data]", SheetColumns,
            << SheetRow("DNA", IDS, PfxS), SheetRow("DNA", IDG, PfxIP) >>),
      Sheet("[Data]", SheetColumns,
            << SheetRow("DNA", IDG, PfxIP), SheetRow("cfDNA", IDS, PfxS) >>),
      Sheet("[Data]", SheetColumnsNoPair, << SheetRow("DNA", IDG, PfxIP) >>),
      Sheet("[Data]", SheetColumns, << SheetRow("RNA", IDS, cX) >>) }

(***************************************************************************)
(* SADET.py: main, loading of the extraction path patterns                 *)
(***************************************************************************)
\* PatSet that keeps the minimum count of the first row of a pattern
PatSetKeepFirst(d, pattern, min) ==
    IF \E i \in DOMAIN d : d[i].pattern = pattern
    THEN d
    ELSE Append(d, [pattern |-> pattern, min |-> min])

\* an ordered dict from pattern to minimum count: d[pattern] = min
PatSet(d, pattern, min) ==
    IF \E i \in DOMAIN d : d[i].pattern = pattern
    THEN [i \in DOMAIN d |->
             IF d[i].pattern = pattern
             THEN [pattern |-> pattern, min |-> min] ELSE d[i]]
    ELSE Append(d, [pattern |-> pattern, min |-> min])

EmptyPatterns == [c \in PatternCategories |-> <<>>]

\* the loop over the lines of the pattern file: the dict, or the exit code
RECURSIVE LoadRows(_, _, _)
LoadRows(rows, type, patterns) ==
    IF rows = <<>> THEN [exit |-> -1, patterns |-> patterns]
    ELSE LET r == Head(rows) IN
         IF r.pattern_category \notin PatternCategories
         THEN [exit |-> 12, patterns |-> patterns]
         ELSE LoadRows(Tail(rows), type,
                  IF r.required_input_type = type
                  THEN [patterns EXCEPT ![r.pattern_category] =
                           PatSet(@, r.path_pattern, r.min_file_count)]
                  ELSE patterns)

(***************************************************************************)
(* SADET.py: main, sample eligibility                                      *)
(***************************************************************************)
\* Passes that asks for the InPreD nomenclature whatever the option says
PassesAlwaysEnforced(sample_id, id_list, require_nomenclature) ==
    /\ Len(find_ID_match(sample_id, id_list, "prefix")) # 0
    /\ is_InPreD_ID(sample_id)

\* a sample passes when its ID matches the ID list and, if required,
\* follows the InPreD nomenclature
Passes(sample_id, id_list, require_nomenclature) ==
    /\ Len(find_ID_match(sample_id, id_list, "prefix")) # 0
    /\ ~(require_nomenclature /\ ~is_InPreD_ID(sample_id))

\* TSOPPI: the samples of sample_list.tsv that are warned about (line 604):
\* the ID matches the ID list and fails the required nomenclature
NomenclatureWarnings(rows, id_list, require_nomenclature) ==
    LET warned == SelectSeq(rows, LAMBDA r :
                      /\ Len(find_ID_match(r.sample_id, id_list, "prefix")) # 0
                      /\ require_nomenclature
                      /\ ~is_InPreD_ID(r.sample_id))
    IN  [i \in DOMAIN warned |-> warned[i].sample_id]

\* TSOPPI: the loop over the data lines of sample_list.tsv
RECURSIVE EligibleSamples(_, _, _, _)
EligibleSamples(rows, id_list, require_nomenclature, dict) ==
    IF rows = <<>> THEN dict
    ELSE LET r == Head(rows) IN
         EligibleSamples(Tail(rows), id_list, require_nomenclature,
             IF Passes(r.sample_id, id_list, require_nomenclature)
             THEN [t \in DOMAIN dict \cup {r.sample_type} |->
                      IF t = r.sample_type THEN r.sample_id ELSE dict[t]]
             ELSE dict)

\* DirectoryEligible for which one eligible sample is enough
DirectoryEligibleSome(dict, count) == Cardinality(DOMAIN dict) > 0

\* DirectoryEligible that asks for a sample on the sample list
DirectoryEligibleNonEmpty(dict, count) ==
    Cardinality(DOMAIN dict) = count /\ count > 0

\* TSOPPI: a directory is processed when len(eligible_sample_dict) equals
\* the number of samples on the sample list
DirectoryEligible(dict, count) == Cardinality(DOMAIN dict) = count

\* an ordered dict from sample ID to pair ID and matching pattern
SampleSet(d, sample_id, pair_id, pattern) ==
    LET rec == [sample_id |-> sample_id, pair_id |-> pair_id, pattern |-> pattern] IN
    IF \E i \in DOMAIN d : d[i].sample_id = sample_id
    THEN [i \in DOMAIN d |-> IF d[i].sample_id = sample_id THEN rec ELSE d[i]]
    ELSE Append(d, rec)

\* SheetSamples that looks at the sample type of every row, before the ID
RECURSIVE SheetSamplesTypeFirst(_, _, _, _)
SheetSamplesTypeFirst(rows, id_list, require_nomenclature, acc) ==
    IF rows = <<>> THEN acc
    ELSE LET r == Head(rows)
             matching_ids == find_ID_match(r.sample_id, id_list, "prefix")
         IN  IF r.sample_type \notin {"DNA", "RNA"}
             THEN [acc EXCEPT !.exit = 16]
             ELSE IF ~Passes(r.sample_id, id_list, require_nomenclature)
             THEN SheetSamplesTypeFirst(Tail(rows), id_list,
                      require_nomenclature,
                      IF matching_ids = <<>> THEN acc
                      ELSE [acc EXCEPT !.warned = Append(@, r.sample_id)])
             ELSE IF r.sample_type = "DNA"
             THEN SheetSamplesTypeFirst(Tail(rows), id_list,
                      require_nomenclature,
                      [acc EXCEPT !.DNA = SampleSet(@, r.sample_id, r.pair_id,
                                                    matching_ids[1])])
             ELSE SheetSamplesTypeFirst(Tail(rows), id_list,
                      require_nomenclature,
                      [acc EXCEPT !.RNA = SampleSet(@, r.sample_id, r.pair_id,
                                                    matching_ids[1])])

\* LocalApp: the loop over the data rows of the sample sheet; a row whose
\* ID matches the ID list and fails the required nomenclature is warned
\* about (logging.warning, line 451) and left out
RECURSIVE SheetSamples(_, _, _, _)
SheetSamples(rows, id_list, require_nomenclature, acc) ==
    IF rows = <<>> THEN acc
    ELSE LET r == Head(rows)
             matching_ids == find_ID_match(r.sample_id, id_list, "prefix")
         IN  IF ~Passes(r.sample_id, id_list, require_nomenclature)
             THEN SheetSamples(Tail(rows), id_list, require_nomenclature,
                      IF matching_ids = <<>> THEN acc
                      ELSE [acc EXCEPT !.warned = Append(@, r.sample_id)])
             ELSE IF r.sample_type = "DNA"
             THEN SheetSamples(Tail(rows), id_list, require_nomenclature,
                      [acc EXCEPT !.DNA = SampleSet(@, r.sample_id, r.pair_id,
                                                    matching_ids[1])])
             ELSE IF r.sample_type = "RNA"
             THEN SheetSamples(Tail(rows), id_list, require_nomenclature,
                      [acc EXCEPT !.RNA = SampleSet(@, r.sample_id, r.pair_id,
                                                    matching_ids[1])])
             ELSE [acc EXCEPT !.exit = 16]

\* ParseSampleSheet for which a sheet without an eligible sample is no
\* reason to end the run
ParseSampleSheetNoCount(sheet, id_list, require_nomenclature) ==
    LET none == [DNA |-> <<>>, RNA |-> <<>>, exit |-> -1, fatal |-> "none",
                 warned |-> <<>>]
        found == SheetSamples(sheet.rows, id_list, require_nomenclature,
                              none)
    IN  IF found.exit # -1
        THEN [found EXCEPT !.fatal = "sample_type"]
        ELSE IF sheet.data_tag = "None"
        THEN [found EXCEPT !.exit = 17, !.fatal = "no_data_section"]
        ELSE found

\* lines 402-469: the header line of the data section is checked before
\* the data rows; the data section tag and the number of eligible samples
\* are checked when every line has been read
ParseSampleSheet(sheet, id_list, require_nomenclature) ==
    LET none == [DNA |-> <<>>, RNA |-> <<>>, exit |-> -1, fatal |-> "none",
                 warned |-> <<>>]
        missing == {c \in {"Sample_Type", "Sample_ID", "Pair_ID"} :
                       \A i \in DOMAIN sheet.columns : sheet.columns[i] # c}
        found == SheetSamples(sheet.rows, id_list, require_nomenclature,
                              none)
    IN  IF sheet.columns # <<>> /\ missing # {}
        THEN [none EXCEPT !.exit = 15, !.fatal = "sheet_column"]
        ELSE IF found.exit # -1
        THEN [found EXCEPT !.fatal = "sample_type"]
        ELSE IF sheet.data_tag = "None"
        THEN [found EXCEPT !.exit = 17, !.fatal = "no_data_section"]
        ELSE IF Len(found.DNA) + Len(found.RNA) = 0
        THEN [found EXCEPT !.exit = 0]
        ELSE found

(***************************************************************************)
(* SADET.py: main, the patterns applied to one processed root              *)
(***************************************************************************)
RECURSIVE Flatten(_)
Flatten(ss) == IF ss = <<>> THEN <<>> ELSE Head(ss) \o Flatten(Tail(ss))

WorkItem(regex, expected, base) ==
    [regex |-> regex, expected_matches |-> expected, base_path |-> base]

\* the general patterns of one category
GeneralWork(patterns, cat) ==
    [k \in DOMAIN patterns[cat] |->
        WorkItem(LitPath(input_dir_cont_path) \o patterns[cat][k].pattern,
                 patterns[cat][k].min, input_dir_cont_path)]

\* the sample-wise patterns of one category, for every sample of the list
SampleWork(patterns, cat, samples) ==
    Flatten([j \in DOMAIN samples |->
        [k \in DOMAIN patterns[cat] |->
            WorkItem(LitPath(input_dir_cont_path)
                       \o Replace(Replace(patterns[cat][k].pattern,
                                          "PAIR_ID", samples[j].pair_id),
                                  "SAMPLE_ID", samples[j].sample_id),
                     patterns[cat][k].min, input_dir_cont_path)]])

\* LocalAppWork that applies the general_bcl patterns to every run
LocalAppWorkBclAlways(patterns, dna, rna, bcl) ==
    GeneralWork(patterns, "general_all")
    \o GeneralWork(patterns, "general_bcl")
    \o SampleWork(patterns, "sample_DNA", dna)
    \o SampleWork(patterns, "sample_RNA", rna)
    \o (IF bcl THEN SampleWork(patterns, "sample_DNA_bcl", dna) ELSE <<>>)
    \o (IF bcl THEN SampleWork(patterns, "sample_RNA_bcl", rna) ELSE <<>>)

\* LocalApp: the calls of reclassify_matching_paths, in order
LocalAppWork(patterns, dna, rna, bcl) ==
    GeneralWork(patterns, "general_all")
    \o (IF bcl THEN GeneralWork(patterns, "general_bcl") ELSE <<>>)
    \o SampleWork(patterns, "sample_DNA", dna)
    \o SampleWork(patterns, "sample_RNA", rna)
    \o (IF bcl THEN SampleWork(patterns, "sample_DNA_bcl", dna) ELSE <<>>)
    \o (IF bcl THEN SampleWork(patterns, "sample_RNA_bcl", rna) ELSE <<>>)

\* valid_pattern_categories that takes T_DNA_tumor_plus for every patient
\* with a DNA tumor sample
valid_pattern_categoriesPlusAlways(dict) ==
    LET has(t) == t \in DOMAIN dict IN
    <<"T_general">>
    \o (IF has("DNA_tumor") THEN <<"T_DNA_tumor", "T_DNA_tumor_plus">> ELSE <<>>)
    \o (IF has("DNA_tumor") /\ has("RNA_tumor")
        THEN <<"T_DNA_tumor_RNA_tumor">> ELSE <<>>)
    \o (IF has("DNA_normal") \/ has("DNA_tumor") THEN <<"T_any_DNA">> ELSE <<>>)
    \o (IF has("DNA_normal") THEN <<"T_DNA_normal">> ELSE <<>>)
    \o (IF has("RNA_tumor") THEN <<"T_RNA_tumor">> ELSE <<>>)

\* TSOPPI: the pattern categories valid for the samples of a patient
valid_pattern_categories(dict) ==
    LET has(t) == t \in DOMAIN dict IN
    <<"T_general">>
    \o (IF has("DNA_tumor") THEN <<"T_DNA_tumor">> ELSE <<>>)
    \o (IF has("DNA_tumor") /\ (has("DNA_normal") \/ has("RNA_tumor"))
        THEN <<"T_DNA_tumor_plus">> ELSE <<>>)
    \o (IF has("DNA_tumor") /\ has("RNA_tumor")
        THEN <<"T_DNA_tumor_RNA_tumor">> ELSE <<>>)
    \o (IF has("DNA_normal") \/ has("DNA_tumor") THEN <<"T_any_DNA">> ELSE <<>>)
    \o (IF has("DNA_normal") THEN <<"T_DNA_normal">> ELSE <<>>)
    \o (IF has("RNA_tumor") THEN <<"T_RNA_tumor">> ELSE <<>>)

\* TSOPPI: the placeholders of the samples the patient has are filled in
FillRoles(pattern, dict) ==
    LET p1 == IF "DNA_tumor" \in DOMAIN dict
              THEN Replace(pattern, "DT_SAMPLE_ID", dict["DNA_tumor"]) ELSE pattern
        p2 == IF "DNA_normal" \in DOMAIN dict
              THEN Replace(p1, "DN_SAMPLE_ID", dict["DNA_normal"]) ELSE p1
    IN  IF "RNA_tumor" \in DOMAIN dict
        THEN Replace(p2, "RT_SAMPLE_ID", dict["RNA_tumor"]) ELSE p2

\* TSOPPI: the calls of reclassify_matching_paths for one patient directory
TsoppiWork(patterns, dict, L1_path) ==
    LET cats == valid_pattern_categories(dict) IN
    Flatten([c \in DOMAIN cats |->
        [k \in DOMAIN patterns[cats[c]] |->
            WorkItem(LitPath(L1_path) \o FillRoles(patterns[cats[c]][k].pattern, dict),
                     patterns[cats[c]][k].min, input_dir_cont_path)]])


(***************************************************************************)
(* SADET.py: main, the export plan writer                                  *)
(***************************************************************************)
EmptyPlan ==
    [written |-> FALSE, exit |-> -1, export |-> <<>>, skip |-> <<>>,
     skipped_file_count |-> 0, selected_file_count |-> 0,
     ignored_directory_count |-> 0]

\* the path of a record without the input directory, and the line written
StripRecord(fp_record) ==
    strip_path_prefix(fp_record, input_dir_cont_path \o <<EmptyComp>>)

PlanLine(fp_record) == <<outfile_dir_name>> \o StripRecord(fp_record)[2]

\* the loop over the records of available_file_paths_dict: it ends at the
\* first record without the prefix (exit 19) or with an unknown status
\* code (exit 20)
WriteLists(dict, acc) ==
    LET bad == {i \in DOMAIN dict :
                   \/ ~StripRecord(dict[i].path)[1]
                   \/ dict[i].status \notin {"S", "E", "I"}}
        first == CHOOSE i \in bad : \A j \in bad : i <= j
        done == IF bad = {} THEN dict ELSE SubSeq(dict, 1, first - 1)
        skipped == SelectSeq(done, LAMBDA r : r.status = "S")
        selected == SelectSeq(done, LAMBDA r : r.status = "E")
        ignored == SelectSeq(done, LAMBDA r : r.status = "I")
    IN  [written |-> TRUE,
         exit |-> IF bad = {} THEN acc.exit
                  ELSE IF ~StripRecord(dict[first].path)[1] THEN 19 ELSE 20,
         export |-> acc.export \o [i \in DOMAIN selected |-> PlanLine(selected[i].path)],
         skip |-> acc.skip \o [i \in DOMAIN skipped |-> PlanLine(skipped[i].path)],
         skipped_file_count |-> acc.skipped_file_count + Len(skipped),
         selected_file_count |-> acc.selected_file_count + Len(selected),
         ignored_directory_count |-> acc.ignored_directory_count + Len(ignored)]

(***************************************************************************)
(* The state of a run.                                                     *)
(***************************************************************************)
VARIABLES
    pc,                           \* the position of main
    exit_code,                    \* -1 while running
    input_type,
    require_inpred_nomenclature,
    ID_prefix_list,
    fs_kind,                      \* each first-level entry: "file" or "dir"
    extraction_patterns,
    DNA_sample_list,
    RNA_sample_list,
    from_BCL,
    l1_index,                     \* TSOPPI: the first-level entry at hand
    l1_status,                    \* TSOPPI: what was decided for each entry
    l1_manifest,                  \* TSOPPI: the data rows read for each entry
    eligible_sample_dict,
    sample_count,
    available_file_paths_dict,
    available_file_paths_dict_L1,
    work,                         \* the pattern applications of this root
    work_i,                       \* the next one
    applied,                      \* the compiled patterns applied so far
    warnings,                     \* the patterns warned about
    plan,                         \* the export list, the skip list, the counters
    generate_export_script_only,  \* the option, as read at line 728
    script_run,                   \* subprocess.run was called on the script
    fatal,                        \* the error that ended the run, or "none"
    infile,                       \* the content of the input file read last
    id_warnings,                  \* the ID list lines warned about
    sample_warnings,              \* the sample IDs warned about (nomenclature)
    rewrite_output,               \* the option --rewrite_output
    outfiles,                     \* the output files: "absent", "old" or "new"
    \* a call of find_ID_match
    m_pc, m_sample_id, m_approved_ids, m_method, m_result,
    \* the export script and the shell that runs it
    parallel_export_and_md5sum,
    archive_level_md5sum,
    script,                       \* the commands written, <<>> before
    sh_line,                      \* the command the shell is at
    tar_job,                      \* the tar | gpg pipeline
    md5_job,                      \* the md5sum command (or loop)
    archive,                      \* the archive file
    md5_read                      \* what md5sum found when it read its input

mainVars ==
    <<pc, exit_code, input_type, require_inpred_nomenclature, ID_prefix_list,
      fs_kind, extraction_patterns, DNA_sample_list, RNA_sample_list, from_BCL,
      l1_index, l1_status, l1_manifest, eligible_sample_dict, sample_count,
      available_file_paths_dict, available_file_paths_dict_L1, work, work_i,
      applied, warnings, plan, generate_export_script_only, script_run,
      fatal, infile, id_warnings, sample_warnings, rewrite_output, outfiles>>

runVars == <<generate_export_script_only, script_run>>

\* the output files of an earlier run with the same prefix are "old"; a
\* file that this run has opened for writing is "new"
OutFileNames == {"log", "export_list", "skip_list", "inherited_errors", "script"}
NoOutFiles == [f \in OutFileNames |-> "absent"]
LogOpened == [NoOutFiles EXCEPT !["log"] = "new"]

outVars == <<rewrite_output, outfiles>>

loadVars == <<fatal, infile, id_warnings, sample_warnings, outVars>>

matchVars == <<m_pc, m_sample_id, m_approved_ids, m_method, m_result>>

scriptVars ==
    <<parallel_export_and_md5sum, archive_level_md5sum, script, sh_line,
      tar_job, md5_job, archive, md5_read>>

vars == <<mainVars, matchVars, scriptVars>>

inputVars ==
    <<input_type, require_inpred_nomenclature, ID_prefix_list, fs_kind>>

localAppVars == <<DNA_sample_list, RNA_sample_list, from_BCL>>

tsoppiVars ==
    <<l1_index, l1_status, l1_manifest, eligible_sample_dict, sample_count>>

\* no call of find_ID_match is followed
MatchIdle ==
    /\ m_pc = "idle"
    /\ m_sample_id = <<>>
    /\ m_approved_ids = <<>>
    /\ m_method = "prefix"
    /\ m_result = <<>>

\* no export script is followed
ScriptIdle ==
    /\ parallel_export_and_md5sum = FALSE
    /\ archive_level_md5sum = FALSE
    /\ script = <<>>
    /\ sh_line = 0
    /\ tar_job = "none"
    /\ md5_job = "none"
    /\ archive = "absent"
    /\ md5_read = "none"

\* the variables of main, before the pattern file is read
MainStart(start) ==
    /\ pc = start
    /\ exit_code = -1
    /\ extraction_patterns = EmptyPatterns
    /\ DNA_sample_list = <<>>
    /\ RNA_sample_list = <<>>
    /\ from_BCL = FALSE
    /\ l1_index = 1
    /\ l1_status = [i \in 1..NumL1 |-> "pending"]
    /\ l1_manifest = [i \in 1..NumL1 |-> <<>>]
    /\ eligible_sample_dict = <<>>
    /\ sample_count = 0
    /\ available_file_paths_dict = <<>>
    /\ available_file_paths_dict_L1 = <<>>
    /\ work = <<>>
    /\ work_i = 1
    /\ applied = <<>>
    /\ warnings = <<>>
    /\ plan = EmptyPlan
    /\ generate_export_script_only = FALSE
    /\ script_run = FALSE
    /\ fatal = "none"
    /\ infile = <<>>
    /\ id_warnings = <<>>
    /\ sample_warnings = <<>>

\* the state when the ID list has been loaded (line 327)
Init ==
    /\ MainStart("load_patterns")
    /\ rewrite_output = FALSE
    /\ outfiles = LogOpened
    /\ input_type \in InputTypes
    /\ require_inpred_nomenclature \in BOOLEAN
    /\ ID_prefix_list \in IDLists
    /\ fs_kind \in [1..NumL1 -> {"file", "dir"}]
    /\ MatchIdle
    /\ ScriptIdle

Exit(code) == pc' = "exit" /\ exit_code' = code

\* exit(code) after the logging.error of the condition
Fatal(condition, code) ==
    /\ Exit(code)
    /\ fatal' = IF code = 0 THEN "none" ELSE condition

\* lines 329-358: the pattern file, one of the given files, is read
LoadPatternsFrom(files) ==
    /\ pc = "load_patterns"
    /\ \E rows \in files :
         LET loaded == LoadRows(rows, input_type, EmptyPatterns) IN
         /\ extraction_patterns' = loaded.patterns
         /\ IF loaded.exit # -1 THEN Fatal("pattern_category", loaded.exit)
            ELSE /\ pc' = IF input_type = "LocalApp" THEN "sample_sheet"
                          ELSE "tsoppi_l1"
                 /\ UNCHANGED <<exit_code, fatal>>
    /\ UNCHANGED <<inputVars, localAppVars, tsoppiVars,
                   available_file_paths_dict, available_file_paths_dict_L1,
                   work, work_i, applied, warnings, plan>>
    /\ UNCHANGED <<matchVars, scriptVars, runVars, infile, id_warnings,
                   sample_warnings, outVars>>

LoadPatterns == LoadPatternsFrom(SeqsUpTo(PatternRows, MaxRows))

\* lines 402-483: the LocalApp sample sheet is read
ReadSampleSheet ==
    /\ pc = "sample_sheet"
    /\ \E sheet \in SampleSheets :
         LET found == ParseSampleSheet(sheet, ID_prefix_list,
                                       require_inpred_nomenclature)
         IN  /\ infile' = sheet
             /\ DNA_sample_list' = found.DNA
             /\ RNA_sample_list' = found.RNA
             /\ sample_warnings' = found.warned
             /\ IF found.exit # -1 THEN Fatal(found.fatal, found.exit)
                ELSE pc' = "log_file" /\ UNCHANGED <<exit_code, fatal>>
    /\ UNCHANGED <<inputVars, extraction_patterns, from_BCL, tsoppiVars,
                   available_file_paths_dict, available_file_paths_dict_L1,
                   work, work_i, applied, warnings, plan>>
    /\ UNCHANGED <<matchVars, scriptVars, runVars, id_warnings, outVars>>

\* lines 485-501: the LocalApp log file is read and the directory is listed
ReadLogFile ==
    /\ pc = "log_file"
    /\ \E bcl \in BOOLEAN :
         /\ from_BCL' = bcl
         /\ infile' = [FastqGeneration |-> bcl]
         /\ work' = LocalAppWork(extraction_patterns, DNA_sample_list,
                                 RNA_sample_list, bcl)
    /\ available_file_paths_dict' =
           DictDel(DictOfListing(GlobRoot(fs_kind)),
                   input_dir_cont_path \o <<EmptyComp>>)
    /\ work_i' = 1
    /\ pc' = "classify"
    /\ UNCHANGED <<exit_code, inputVars, extraction_patterns, DNA_sample_list,
                   RNA_sample_list, tsoppiVars, available_file_paths_dict_L1,
                   applied, warnings, plan>>
    /\ UNCHANGED <<matchVars, scriptVars, runVars, fatal, id_warnings,
                   sample_warnings, outVars>>

\* lines 509-518, 531-543, 641-657: one pattern is applied to the root
ApplyPattern ==
    /\ pc = "classify"
    /\ work_i <= Len(work)
    /\ LET item == work[work_i]
           dict == IF input_type = "LocalApp" THEN available_file_paths_dict
                   ELSE available_file_paths_dict_L1
           res == reclassify_matching_paths(item.regex, dict, item.base_path)
       IN  /\ IF input_type = "LocalApp"
              THEN /\ available_file_paths_dict' = res.dict
                   /\ UNCHANGED available_file_paths_dict_L1
              ELSE /\ available_file_paths_dict_L1' = res.dict
                   /\ UNCHANGED available_file_paths_dict
           /\ warnings' = IF res.count < item.expected_matches
                          THEN Append(warnings, item.regex) ELSE warnings
           /\ applied' = Append(applied, item.regex)
    /\ work_i' = work_i + 1
    /\ UNCHANGED <<pc, exit_code, inputVars, extraction_patterns, localAppVars,
                   tsoppiVars, work, plan>>
    /\ UNCHANGED <<matchVars, scriptVars, runVars, loadVars>>


\* lines 554-556, 661-662: a first-level entry that is no directory
TsoppiL1File ==
    /\ pc = "tsoppi_l1"
    /\ l1_index <= NumL1
    /\ fs_kind[l1_index] = "file"
    /\ available_file_paths_dict' =
           DictMerge(available_file_paths_dict,
                     <<[path |-> L1Path(l1_index), status |-> "S"]>>)
    /\ l1_status' = [l1_status EXCEPT ![l1_index] = "file"]
    /\ l1_index' = l1_index + 1
    /\ UNCHANGED <<pc, exit_code, inputVars, extraction_patterns, localAppVars,
                   l1_manifest, eligible_sample_dict, sample_count,
                   available_file_paths_dict_L1, work, work_i, applied,
                   warnings, plan>>
    /\ UNCHANGED <<matchVars, scriptVars, runVars, loadVars>>

\* lines 559-564: a first-level directory without sample_list.tsv
TsoppiL1NoManifest ==
    /\ pc = "tsoppi_l1"
    /\ l1_index <= NumL1
    /\ fs_kind[l1_index] = "dir"
    /\ l1_status' = [l1_status EXCEPT ![l1_index] = "no_manifest"]
    /\ l1_index' = l1_index + 1
    /\ UNCHANGED <<pc, exit_code, inputVars, extraction_patterns, localAppVars,
                   l1_manifest, eligible_sample_dict, sample_count,
                   available_file_paths_dict, available_file_paths_dict_L1,
                   work, work_i, applied, warnings, plan>>
    /\ UNCHANGED <<matchVars, scriptVars, runVars, loadVars>>

\* lines 566-637: sample_list.tsv is read; the directory is skipped, or it is
\* listed and the patterns to apply are determined
TsoppiL1ManifestFrom(sample_lists) ==
    /\ pc = "tsoppi_l1"
    /\ l1_index <= NumL1
    /\ fs_kind[l1_index] = "dir"
    /\ \E rows \in sample_lists :
         LET dict == EligibleSamples(rows, ID_prefix_list,
                                     require_inpred_nomenclature, <<>>)
             L1_path == L1Path(l1_index)
         IN  /\ l1_manifest' = [l1_manifest EXCEPT ![l1_index] = rows]
             /\ eligible_sample_dict' = dict
             /\ sample_count' = Len(rows)
             /\ sample_warnings' =
                    sample_warnings
                    \o NomenclatureWarnings(rows, ID_prefix_list,
                                            require_inpred_nomenclature)
             /\ IF ~DirectoryEligible(dict, Len(rows))
                THEN /\ available_file_paths_dict' =
                            DictMerge(available_file_paths_dict,
                                      <<[path |-> L1_path, status |-> "S"]>>)
                     /\ l1_status' = [l1_status EXCEPT ![l1_index] = "ineligible"]
                     /\ l1_index' = l1_index + 1
                     /\ UNCHANGED <<pc, available_file_paths_dict_L1, work, work_i>>
                ELSE /\ available_file_paths_dict_L1' =
                            DictDel(DictOfListing(GlobL1(l1_index)),
                                    L1_path \o <<EmptyComp>>)
                     /\ work' = TsoppiWork(extraction_patterns, dict, L1_path)
                     /\ work_i' = 1
                     /\ l1_status' = [l1_status EXCEPT ![l1_index] = "eligible"]
                     /\ pc' = "classify"
                     /\ UNCHANGED <<available_file_paths_dict, l1_index>>
    /\ UNCHANGED <<exit_code, inputVars, extraction_patterns, localAppVars,
                   applied, warnings, plan>>
    /\ UNCHANGED <<matchVars, scriptVars, runVars, fatal, infile, id_warnings,
                   outVars>>

TsoppiL1Manifest == TsoppiL1ManifestFrom(SampleLists)

\* lines 659-660: the paths of the patient directory join the overall dict
TsoppiMergeL1 ==
    /\ pc = "classify"
    /\ input_type = "TSOPPI"
    /\ work_i > Len(work)
    /\ available_file_paths_dict' =
           DictMerge(available_file_paths_dict, available_file_paths_dict_L1)
    /\ l1_index' = l1_index + 1
    /\ pc' = "tsoppi_l1"
    /\ UNCHANGED <<exit_code, inputVars, extraction_patterns, localAppVars,
                   l1_status, l1_manifest, eligible_sample_dict, sample_count,
                   available_file_paths_dict_L1, work, work_i, applied,
                   warnings, plan>>
    /\ UNCHANGED <<matchVars, scriptVars, runVars, loadVars>>

\* classification is over and the plan writer is next
ClassificationDone ==
    \/ input_type = "LocalApp" /\ pc = "classify" /\ work_i > Len(work)
    \/ input_type = "TSOPPI" /\ pc = "tsoppi_l1" /\ l1_index > NumL1

\* lines 664-694: the export list and the skip list are written
WritePlan ==
    /\ ClassificationDone
    /\ LET written == WriteLists(available_file_paths_dict, EmptyPlan) IN
       /\ plan' = written
       /\ outfiles' = [outfiles EXCEPT !["export_list"] = "new",
                                       !["skip_list"] = "new"]
       /\ IF written.exit # -1
          THEN Fatal(IF written.exit = 19 THEN "plan_prefix" ELSE "plan_status",
                     written.exit)
          ELSE pc' = "plan_written" /\ UNCHANGED <<exit_code, fatal>>
    /\ UNCHANGED <<inputVars, extraction_patterns, localAppVars, tsoppiVars,
                   available_file_paths_dict, available_file_paths_dict_L1,
                   work, work_i, applied, warnings>>
    /\ UNCHANGED <<matchVars, scriptVars, runVars, infile, id_warnings,
                   sample_warnings, rewrite_output>>

\* NoFilesQualified that goes on to the export script
NoFilesQualifiedWritesScript ==
    /\ pc = "plan_written"
    /\ plan.selected_file_count = 0
    /\ pc' = "script_written"
    /\ script_run' = TRUE
    /\ UNCHANGED <<exit_code, inputVars, extraction_patterns, localAppVars,
                   tsoppiVars, available_file_paths_dict,
                   available_file_paths_dict_L1, work, work_i, applied,
                   warnings, plan, generate_export_script_only>>
    /\ outfiles' = [outfiles EXCEPT !["script"] = "new"]
    /\ UNCHANGED <<matchVars, scriptVars, fatal, infile, id_warnings,
                   sample_warnings, rewrite_output>>

\* lines 731-733: no file qualified for extraction
NoFilesQualified ==
    /\ pc = "plan_written"
    /\ plan.selected_file_count = 0
    /\ Exit(0)
    /\ UNCHANGED <<inputVars, extraction_patterns, localAppVars, tsoppiVars,
                   available_file_paths_dict, available_file_paths_dict_L1,
                   work, work_i, applied, warnings, plan>>
    /\ UNCHANGED <<matchVars, scriptVars, runVars, loadVars>>

\* lines 698-730: the export script is written (and run, unless disabled)
WriteScript ==
    /\ pc = "plan_written"
    /\ plan.selected_file_count > 0
    /\ pc' = "script_written"
    /\ \E only \in BOOLEAN :
         /\ generate_export_script_only' = only
         /\ script_run' = ~only
    /\ UNCHANGED <<exit_code, inputVars, extraction_patterns, localAppVars,
                   tsoppiVars, available_file_paths_dict,
                   available_file_paths_dict_L1, work, work_i, applied,
                   warnings, plan>>
    /\ outfiles' = [outfiles EXCEPT !["script"] = "new"]
    /\ UNCHANGED <<matchVars, scriptVars, fatal, infile, id_warnings,
                   sample_warnings, rewrite_output>>

Next ==
    \/ LoadPatterns
    \/ ReadSampleSheet
    \/ ReadLogFile
    \/ ApplyPattern
    \/ TsoppiL1File
    \/ TsoppiL1NoManifest
    \/ TsoppiL1Manifest
    \/ TsoppiMergeL1
    \/ WritePlan
    \/ NoFilesQualified
    \/ WriteScript

Spec == Init /\ [][Next]_vars


(***************************************************************************)
(* Properties of the path classifier and of the plan writer.               *)
(***************************************************************************)
\* the dict the patterns of the root at hand are applied to
CurDict ==
    IF input_type = "LocalApp" THEN available_file_paths_dict
    ELSE available_file_paths_dict_L1

\* the length of the path of the root at hand
RootLen ==
    IF input_type = "LocalApp" THEN Len(input_dir_cont_path)
    ELSE Len(input_dir_cont_path) + 1

\* the keys of d with a given status
PathsWith(d, status) ==
    {d[i].path : i \in {j \in DOMAIN d : d[j].status = status}}

ExportPaths(d) == PathsWith(d, "E")
IgnorePaths(d) == PathsWith(d, "I")
SkipPaths(d) == PathsWith(d, "S")

\* the classification of the root at hand is over
RootClassified == pc = "classify" /\ work_i > Len(work)

\* p matches one of the patterns applied so far
MatchesApplied(p) == \E k \in DOMAIN applied : FullMatch(applied[k], p)

\* C1: in reclassify_matching_paths a path that is Export is never changed
\* to Ignore, whatever patterns are applied afterwards.
C1_ExportNeverDowngraded ==
    [][\A p \in DictKeys(CurDict) :
          (DictGet(CurDict, p) = "E" /\ DictHas(CurDict', p))
              => DictGet(CurDict', p) # "I"]_vars

\* C2: at the end of the classification of a root every path of the map
\* that matches one of the applied patterns is Export.
C2_MatchedIsExport ==
    RootClassified =>
        \A p \in DictKeys(CurDict) :
            MatchesApplied(p) => DictGet(CurDict, p) = "E"

\* the patterns of the root at hand applied in the order perm to a map
\* that is all Skip
RECURSIVE ApplyInOrder(_, _, _)
ApplyInOrder(dict, perm, k) ==
    IF k > Len(work) \/ dict = <<>> THEN dict
    ELSE ApplyInOrder(
             reclassify_matching_paths(work[perm[k]].regex, dict,
                                       work[perm[k]].base_path).dict,
             perm, k + 1)

AllSkip(d) == [i \in DOMAIN d |-> [path |-> d[i].path, status |-> "S"]]

\* C3: the final map of a root is the same for every order in which its
\* patterns are applied.
C3_OrderIndependent ==
    RootClassified =>
        \A perm \in Permutations(1..Len(work)) :
            ApplyInOrder(AllSkip(CurDict), perm, 1) = CurDict

\* every directory between the processed root and an Export path of d is
\* in d, as Ignore or Export
AncestorsMarked(d) ==
    \A p \in ExportPaths(d) :
        \A n \in (RootLen + 1)..(Len(p) - 1) :
            /\ DictHas(d, SubSeq(p, 1, n))
            /\ DictGet(d, SubSeq(p, 1, n)) \in {"I", "E"}

\* C4: after any sequence of pattern applications every strict ancestor of
\* an Export path below the processed root is Ignore or Export, never Skip.
C4_AncestorsNeverSkip ==
    AncestorsMarked(CurDict) /\ AncestorsMarked(available_file_paths_dict)

\* C4 witness: two patterns were applied and an Export path has an Ignore
\* directory two levels above it
C4_Witness ==
    /\ work_i > 2
    /\ \E p \in ExportPaths(CurDict) :
          /\ Len(p) >= RootLen + 3
          /\ DictGet(CurDict, SubSeq(p, 1, Len(p) - 2)) = "I"

HasExportBelow(d, a) == \E p \in ExportPaths(d) : IsStrictAncestor(a, p)

\* C5: at the end of classification a directory is Ignore iff it is a
\* strict ancestor of an Export path and did not itself match a pattern.
C5_IgnoreIff ==
    RootClassified =>
        \A a \in DictKeys(CurDict) :
            DictGet(CurDict, a) = "I"
                <=> (HasExportBelow(CurDict, a) /\ ~MatchesApplied(a))


\* the line written for a path: the name of the input directory and the
\* path below it
LineOf(p) ==
    <<outfile_dir_name>>
    \o SubSeq(p, Len(input_dir_cont_path) + 1, Len(p))

Range(f) == {f[i] : i \in DOMAIN f}

ExportLines == Range(plan.export)
SkipLines == Range(plan.skip)
IgnoreLines == {LineOf(p) : p \in IgnorePaths(available_file_paths_dict)}

\* the three sets have no line in common and no line is written twice
ListsDisjoint ==
    /\ ExportLines \cap SkipLines = {}
    /\ ExportLines \cap IgnoreLines = {}
    /\ SkipLines \cap IgnoreLines = {}
    /\ Cardinality(ExportLines) = Len(plan.export)
    /\ Cardinality(SkipLines) = Len(plan.skip)
    /\ Cardinality(IgnoreLines) = plan.ignored_directory_count

CoveredPaths ==
    IF input_type = "LocalApp" THEN AllPaths(fs_kind)
    ELSE {L1Path(i) : i \in {j \in 1..NumL1 :
                                 l1_status[j] \in {"file", "ineligible"}}}
         \cup {p \in AllPaths(fs_kind) :
                  \E i \in 1..NumL1 : /\ l1_status[i] = "eligible"
                                      /\ IsStrictAncestor(L1Path(i), p)}

NumPassing(i) ==
    Cardinality({k \in DOMAIN l1_manifest[i] :
                    Passes(l1_manifest[i][k].sample_id, ID_prefix_list,
                           require_inpred_nomenclature)})

\* the sample list of the i-th entry was read and fewer samples pass than
\* it lists
FewerPass(i) ==
    /\ l1_status[i] \in {"eligible", "ineligible"}
    /\ NumPassing(i) < Len(l1_manifest[i])

PathsBelow(i) == {p \in AllPaths(fs_kind) : IsStrictAncestor(L1Path(i), p)}

\* no pattern was applied to the content of the i-th entry
NoPatternFor(i) ==
    \A k \in DOMAIN applied : ~IsPrefix(LitPath(L1Path(i)), applied[k])

\* C7 as stated: a patient directory with a sample that does not pass is
\* Skip, and so is every path below it; no pattern is applied to it.
C7_IneligibleAllSkip ==
    \A i \in 1..NumL1 :
        FewerPass(i) =>
            /\ DictHas(available_file_paths_dict, L1Path(i))
            /\ DictGet(available_file_paths_dict, L1Path(i)) = "S"
            /\ \A p \in PathsBelow(i) :
                  /\ DictHas(available_file_paths_dict, p)
                  /\ DictGet(available_file_paths_dict, p) = "S"
            /\ NoPatternFor(i)

\* C7 (amended): a patient directory with a sample that does not pass is
\* itself Skip and no path below it is in the map (none is ever listed,
\* Export or Ignore); no pattern is applied to it.
C7_IneligibleDirSkipOnly ==
    \A i \in 1..NumL1 :
        FewerPass(i) =>
            /\ l1_status[i] = "ineligible"
            /\ DictHas(available_file_paths_dict, L1Path(i))
            /\ DictGet(available_file_paths_dict, L1Path(i)) = "S"
            /\ \A p \in PathsBelow(i) :
                  /\ ~DictHas(available_file_paths_dict, p)
                  /\ ~DictHas(available_file_paths_dict_L1, p)
            /\ NoPatternFor(i)

\* C7 witness: the plan is written, one patient directory had a sample
\* that does not pass and another one has exported paths
C7_Witness ==
    /\ pc = "plan_written"
    /\ plan.export # <<>>
    /\ \E i \in 1..NumL1 : FewerPass(i) /\ NumPassing(i) > 0


(***************************************************************************)
(* find_ID_match as a function of its arguments.                           *)
(***************************************************************************)
IDChars == {"S", "I"}

\* the strings of at most MaxIDLen characters
IDStrings == SeqsUpTo(IDChars, MaxIDLen)

\* the main program stands still
MainIdle ==
    /\ MainStart("idle")
    /\ rewrite_output = FALSE
    /\ outfiles = NoOutFiles
    /\ input_type = "LocalApp"
    /\ require_inpred_nomenclature = FALSE
    /\ ID_prefix_list = <<>>
    /\ fs_kind = [i \in 1..NumL1 |-> "file"]

\* the arguments of a call: the approved IDs are never empty strings
\* (line 319)
InitIDMatch ==
    /\ MainIdle
    /\ ScriptIdle
    /\ m_pc = "call"
    /\ m_sample_id \in IDStrings
    /\ m_approved_ids \in SeqsUpTo(IDStrings \ {<<>>}, MaxListLen)
    /\ m_method \in {"prefix", "exact"}
    /\ m_result = <<>>

CallFindIDMatch ==
    /\ m_pc = "call"
    /\ m_result' = find_ID_match(m_sample_id, m_approved_ids, m_method)
    /\ m_pc' = "returned"
    /\ UNCHANGED <<m_sample_id, m_approved_ids, m_method, mainVars, scriptVars>>

NextIDMatch == CallFindIDMatch

SpecIDMatch == InitIDMatch /\ [][NextIDMatch]_vars

\* C8 as stated: the sample ID is eligible exactly when it is a prefix of
\* an approved ID.
C8_SampleIsPrefixOfEntry ==
    (m_pc = "returned" /\ m_method = "prefix") =>
        (m_result # <<>>
            <=> \E k \in DOMAIN m_approved_ids :
                    IsPrefix(m_sample_id, m_approved_ids[k]))

\* C8 (amended): the sample ID is eligible exactly when an approved ID is a
\* prefix of it; the result lists those approved IDs.
C8_EntryIsPrefixOfSample ==
    (m_pc = "returned" /\ m_method = "prefix") =>
        /\ m_result # <<>>
              <=> \E k \in DOMAIN m_approved_ids :
                      IsPrefix(m_approved_ids[k], m_sample_id)
        /\ Range(m_result) =
               {e \in Range(m_approved_ids) : IsPrefix(e, m_sample_id)}

\* C8 witness: a sample ID longer than the approved ID that matches it, and
\* an approved ID that does not match
C8_Witness ==
    /\ m_pc = "returned"
    /\ m_method = "prefix"
    /\ Len(m_result) = 1
    /\ Len(m_approved_ids) = 2
    /\ Len(m_result[1]) < Len(m_sample_id)

(***************************************************************************)
(* SADET.py: main, the export script (lines 698-725), and the shell that   *)
(* runs it.                                                                *)
(***************************************************************************)
Cmd(name, bg) == [cmd |-> name, bg |-> bg]

\* ExportScript without the wait line
ExportScriptNoWait(parallel, archive_level) ==
    << Cmd("date", FALSE), Cmd("echo", FALSE), Cmd("exec", FALSE),
       Cmd("exec", FALSE), Cmd("sleep", FALSE), Cmd("echo", FALSE),
       Cmd("rm_archive", FALSE), Cmd("tar_gpg", parallel) >>
    \o (IF archive_level
        THEN << Cmd("echo", FALSE), Cmd("md5_archive", parallel) >>
        ELSE << Cmd("echo", FALSE), Cmd("cd", FALSE),
                Cmd("md5_files", parallel), Cmd("cd", FALSE) >>)
    \o << Cmd("date", FALSE) >>

\* the lines written to the script; bg: the line ends with " &"
ExportScript(parallel, archive_level) ==
    << Cmd("date", FALSE), Cmd("echo", FALSE), Cmd("exec", FALSE),
       Cmd("exec", FALSE), Cmd("sleep", FALSE), Cmd("echo", FALSE),
       Cmd("rm_archive", FALSE), Cmd("tar_gpg", parallel) >>
    \o (IF archive_level
        THEN << Cmd("echo", FALSE), Cmd("md5_archive", parallel) >>
        ELSE << Cmd("echo", FALSE), Cmd("cd", FALSE),
                Cmd("md5_files", parallel), Cmd("cd", FALSE) >>)
    \o (IF parallel THEN << Cmd("wait", FALSE) >> ELSE <<>>)
    \o << Cmd("date", FALSE) >>

SimpleCmds == {"date", "echo", "exec", "sleep", "cd"}
Md5Cmds == {"md5_archive", "md5_files"}

\* the options are set, the archive of an earlier run may exist, and the
\* script is about to be written
InitScript ==
    /\ MainIdle
    /\ MatchIdle
    /\ parallel_export_and_md5sum \in BOOLEAN
    /\ archive_level_md5sum \in BOOLEAN
    /\ script = <<>>
    /\ sh_line = 0
    /\ tar_job = "none"
    /\ md5_job = "none"
    /\ archive \in {"absent", "old"}
    /\ md5_read = "none"

AtCmd == IF sh_line \in DOMAIN script THEN script[sh_line] ELSE Cmd("none", FALSE)

\* lines 699-725: the script is written; bash starts at its first line
WriteExportScript ==
    /\ sh_line = 0
    /\ script' = ExportScript(parallel_export_and_md5sum, archive_level_md5sum)
    /\ sh_line' = 1
    /\ UNCHANGED <<parallel_export_and_md5sum, archive_level_md5sum, tar_job,
                   md5_job, archive, md5_read, mainVars, matchVars>>

\* date, echo, exec, sleep, cd
ShellSimple ==
    /\ AtCmd.cmd \in SimpleCmds
    /\ sh_line' = sh_line + 1
    /\ UNCHANGED <<parallel_export_and_md5sum, archive_level_md5sum, script,
                   tar_job, md5_job, archive, md5_read, mainVars, matchVars>>

\* if [ -f archive ]; then rm archive ; fi
ShellRemoveArchive ==
    /\ AtCmd.cmd = "rm_archive"
    /\ archive' = "absent"
    /\ sh_line' = sh_line + 1
    /\ UNCHANGED <<parallel_export_and_md5sum, archive_level_md5sum, script,
                   tar_job, md5_job, md5_read, mainVars, matchVars>>

\* tar ... | gpg ... is started; with " &" the shell goes on
ShellStartTarGpg ==
    /\ AtCmd.cmd = "tar_gpg"
    /\ tar_job = "none"
    /\ tar_job' = "running"
    /\ sh_line' = IF AtCmd.bg THEN sh_line + 1 ELSE sh_line
    /\ UNCHANGED <<parallel_export_and_md5sum, archive_level_md5sum, script,
                   md5_job, archive, md5_read, mainVars, matchVars>>

\* md5sum (or the md5sum loop) is started; with " &" the shell goes on
ShellStartMd5 ==
    /\ AtCmd.cmd \in Md5Cmds
    /\ md5_job = "none"
    /\ md5_job' = "running"
    /\ sh_line' = IF AtCmd.bg THEN sh_line + 1 ELSE sh_line
    /\ UNCHANGED <<parallel_export_and_md5sum, archive_level_md5sum, script,
                   tar_job, archive, md5_read, mainVars, matchVars>>

\* a command without " &" has ended: the shell goes on
ShellForegroundDone ==
    /\ ~AtCmd.bg
    /\ \/ AtCmd.cmd = "tar_gpg" /\ tar_job = "done"
       \/ AtCmd.cmd \in Md5Cmds /\ md5_job = "done"
    /\ sh_line' = sh_line + 1
    /\ UNCHANGED <<parallel_export_and_md5sum, archive_level_md5sum, script,
                   tar_job, md5_job, archive, md5_read, mainVars, matchVars>>

\* wait: returns when no background job is running
ShellWait ==
    /\ AtCmd.cmd = "wait"
    /\ tar_job # "running"
    /\ md5_job # "running"
    /\ sh_line' = sh_line + 1
    /\ UNCHANGED <<parallel_export_and_md5sum, archive_level_md5sum, script,
                   tar_job, md5_job, archive, md5_read, mainVars, matchVars>>

\* gpg creates the archive and starts to write it
TarGpgWrite ==
    /\ tar_job = "running"
    /\ archive = "absent"
    /\ archive' = "partial"
    /\ UNCHANGED <<parallel_export_and_md5sum, archive_level_md5sum, script,
                   sh_line, tar_job, md5_job, md5_read, mainVars, matchVars>>

\* the archive is complete and the pipeline ends
TarGpgFinish ==
    /\ tar_job = "running"
    /\ archive = "partial"
    /\ archive' = "complete"
    /\ tar_job' = "done"
    /\ UNCHANGED <<parallel_export_and_md5sum, archive_level_md5sum, script,
                   sh_line, md5_job, md5_read, mainVars, matchVars>>

\* md5sum reads its input (the archive as it is now, or the files of the
\* export list) and ends
Md5Run ==
    /\ md5_job = "running"
    /\ md5_read' = IF archive_level_md5sum THEN archive ELSE "files"
    /\ md5_job' = "done"
    /\ UNCHANGED <<parallel_export_and_md5sum, archive_level_md5sum, script,
                   sh_line, tar_job, archive, mainVars, matchVars>>

NextScript ==
    \/ WriteExportScript
    \/ ShellSimple
    \/ ShellRemoveArchive
    \/ ShellStartTarGpg
    \/ ShellStartMd5
    \/ ShellForegroundDone
    \/ ShellWait
    \/ TarGpgWrite
    \/ TarGpgFinish
    \/ Md5Run

SpecScript == InitScript /\ [][NextScript]_vars

\* C9: with the archive-level checksum, md5sum starts only when tar | gpg
\* has ended, with or without the parallel option: it never reads an
\* archive that is missing or still written.
C9_ArchiveChecksumAfterArchive ==
    archive_level_md5sum =>
        /\ md5_job # "none" => tar_job = "done"
        /\ md5_read \in {"none", "complete"}

\* the two jobs are written as background commands iff the parallel option
\* is set
JobsInBackground ==
    \A k \in DOMAIN script :
        script[k].cmd \in Md5Cmds \cup {"tar_gpg"}
            => script[k].bg = parallel_export_and_md5sum

\* C10: with the parallel option both jobs are background jobs and the
\* script reaches its last command only when both have ended; without it
\* the checksum step starts only when the archive step has ended.
C10_WaitsForBothJobs ==
    script # <<>> =>
        /\ JobsInBackground
        /\ sh_line >= Len(script) => (tar_job = "done" /\ md5_job = "done")
        /\ ~parallel_export_and_md5sum =>
               (md5_job # "none" => tar_job = "done")

\* C10 witness: a script written with the parallel option has passed its
\* wait and is at its last command, both jobs ended
C10_Witness ==
    /\ parallel_export_and_md5sum
    /\ script # <<>>
    /\ sh_line >= Len(script)
    /\ tar_job = "done"
    /\ md5_job = "done"

(***************************************************************************)
(* Idempotence of the classification of a root.                            *)
(***************************************************************************)
\* the patterns of the root at hand, in the order they were applied
InOrder == [k \in 1..Len(work) |-> k]

\* C11: classifying the same listing again with the same patterns gives the
\* same map, and applying the same patterns once more to the classified map
\* changes no status.
C11_ClassificationIdempotent ==
    RootClassified =>
        /\ ApplyInOrder(AllSkip(CurDict), InOrder, 1) = CurDict
        /\ ApplyInOrder(CurDict, InOrder, 1) = CurDict

\* C11 witness: two patterns were applied, the second one turned a path the
\* first one had marked Export into Ignore, and other paths are Export
C11_Witness ==
    /\ RootClassified
    /\ Len(work) >= 2
    /\ ExportPaths(CurDict) # {}
    /\ \E p \in IgnorePaths(CurDict) : FullMatch(work[1].regex, p)

(***************************************************************************)
(* The end of a run: the export plan, the export script, the exit code.    *)
(***************************************************************************)
\* no path of the overall map is Export
NoExport == ExportPaths(available_file_paths_dict) = {}

\* the export list is empty, the skip list holds the Skip paths, no script
\* was written or run, and an exit is an exit with code 0
EmptyPlanNoScript ==
    /\ plan.exit = -1
    /\ plan.export = <<>>
    /\ SkipLines = {LineOf(p) : p \in SkipPaths(available_file_paths_dict)}
    /\ pc \in {"plan_written", "exit"}
    /\ pc = "exit" => exit_code = 0
    /\ ~script_run

\* C12: when no path is Export the run writes an empty export list and the
\* skip list and ends with exit code 0 (when the classification is over the
\* next step writes the plan, and the step after it is the exit with code 0),
\* and no export script is written or run; the script is written only when
\* a path is Export, and run only when moreover the script-only option is
\* not set.
C12_NoExportEndsWithoutScript ==
    /\ []((plan.written /\ NoExport) => EmptyPlanNoScript)
    /\ [](pc = "script_written" => (plan.written /\ ~NoExport))
    /\ [](script_run => (pc = "script_written" /\ ~generate_export_script_only))
    /\ []((pc = "plan_written" /\ NoExport) => ENABLED NoFilesQualified)
    /\ [][(ClassificationDone /\ NoExport)
              => (pc' = "plan_written" /\ plan'.written)]_vars
    /\ [][(pc = "plan_written" /\ NoExport)
              => (pc' = "exit" /\ exit_code' = 0)]_vars

\* C12 witness: the run has ended with exit code 0 after listing paths and
\* writing a skip list; patterns were applied and none matched
C12_Witness ==
    /\ pc = "exit"
    /\ exit_code = 0
    /\ plan.written
    /\ plan.export = <<>>
    /\ Len(plan.skip) > 1
    /\ applied # <<>>

(***************************************************************************)
(* SADET.py: main, from the options to the first pattern (lines 141-483    *)
(* and 546-589), the input files being lines of tab-separated fields       *)
(***************************************************************************)
\* the exit code that follows each logging.error of main
ExitCodes ==
    [ output_file_prefix |-> 1,     \* line 153
      output_dir_prefix  |-> 2,     \* line 164
      output_dir_create  |-> 3,     \* line 176
      pass_file_prefix   |-> 4,     \* line 187
      pass_file_missing  |-> 5,     \* line 191
      id_file_prefix     |-> 6,     \* line 201
      id_file_missing    |-> 7,     \* line 205
      input_dir_prefix   |-> 8,     \* line 215
      input_dir_missing  |-> 9,     \* line 220
      id_list_fields     |-> 10,    \* line 305
      id_list_column     |-> 18,    \* line 312
      pattern_fields     |-> 11,    \* line 345
      pattern_category   |-> 12,    \* line 355
      logs_dir           |-> 21,    \* line 380
      sample_sheet_count |-> 13,    \* line 388
      log_file_count     |-> 14,    \* line 398
      sheet_column       |-> 15,    \* line 433
      sample_type        |-> 16,    \* line 461
      no_data_section    |-> 17,    \* line 466
      sample_list_column |-> 18,    \* line 587
      plan_prefix        |-> 19,    \* line 681
      plan_status        |-> 20 ]   \* line 694

FatalConditions == DOMAIN ExitCodes

\* the exit status of the interpreter after an uncaught exception
UncaughtExit == 1

\* the run ends at the condition, with its exit code
FatalAt(condition) ==
    Fatal(condition, IF condition \in FatalConditions
                     THEN ExitCodes[condition] ELSE UncaughtExit)

cH == <<"h">>
cHH == <<"h", "h">>

\* --host_system_mounting_directory "/h", --container_mounting_directory "/m"
host_system_prefix == <<cH>>
base_dir_path == <<cM>>

\* the paths the options may name: "/h/r", "/hh/r", "/x/r"
HostPaths == { <<cH, cR>>, <<cHH, cR>>, <<cX, cR>> }

\* target_prefix + rest, the rest starting inside a component
PathConcat(target_prefix, rest) ==
    SubSeq(target_prefix, 1, Len(target_prefix) - 1)
    \o << target_prefix[Len(target_prefix)] \o rest[1] >>
    \o Tail(rest)

\* convert_path: (prefix present, converted path)
convert_path(current_file_path, current_prefix, target_prefix) ==
    IF PathStartsWith(current_file_path, current_prefix)
    THEN <<TRUE, PathConcat(target_prefix,
                            PathAfter(current_file_path, current_prefix))>>
    ELSE <<FALSE, <<"NA">>>>

Letters ==
    {"a", "b", "c", "d", "e", "f", "g", "h", "i", "j", "k", "l", "m",
     "n", "o", "p", "q", "r", "s", "t", "u", "v", "w", "x", "y", "z",
     "A", "B", "C", "D", "E", "F", "G", "H", "I", "J", "K", "L", "M",
     "N", "O", "P", "Q", "R", "S", "T", "U", "V", "W", "X", "Y", "Z"}

\* re.sub("[a-zA-Z0-9_]+", "", output_file_prefix)
ForbiddenCharTail(output_file_prefix) ==
    SelectSeq(output_file_prefix,
              LAMBDA c : c \notin Letters \cup Digits \cup {"_"})

\* the values of --output_file_prefix: "run_1", "run-1"
OutputFilePrefixes ==
    { <<"r", "u", "n", "_", "1">>, <<"r", "u", "n", "-", "1">> }

\* the variables of main that the steps before the ID list leave alone
loadedVars ==
    <<ID_prefix_list, extraction_patterns, localAppVars, tsoppiVars,
      available_file_paths_dict, available_file_paths_dict_L1, work, work_i,
      applied, warnings, plan, runVars, infile, id_warnings, sample_warnings,
      outVars>>

otherVars == <<matchVars, scriptVars>>

\* the run goes on to the next step
GoOn(next) == pc' = next /\ UNCHANGED <<exit_code, fatal>>

\* lines 141-153: the output file prefix
CheckOutputFilePrefix ==
    /\ pc = "output_file_prefix"
    /\ \E is_set \in BOOLEAN, output_file_prefix \in OutputFilePrefixes :
         IF is_set /\ Len(ForbiddenCharTail(output_file_prefix)) > 0
         THEN FatalAt("output_file_prefix")
         ELSE GoOn("output_dir")
    /\ UNCHANGED <<input_type, require_inpred_nomenclature, fs_kind,
                   loadedVars, otherVars>>

\* lines 157-177: the output directory, created when it is missing
ConvertOutputDir ==
    /\ pc = "output_dir"
    /\ \E output_dir_hs_path \in HostPaths, is_dir, parent_exists \in BOOLEAN :
         IF ~convert_path(output_dir_hs_path, host_system_prefix,
                          base_dir_path)[1]
         THEN FatalAt("output_dir_prefix")
         ELSE IF ~is_dir /\ ~parent_exists
         THEN FatalAt("output_dir_create")
         ELSE GoOn("pass_file")
    /\ UNCHANGED <<input_type, require_inpred_nomenclature, fs_kind,
                   loadedVars, otherVars>>

\* lines 180-191: the password file
ConvertPassFile ==
    /\ pc = "pass_file"
    /\ \E pass_file_hs_path \in HostPaths, is_file \in BOOLEAN :
         IF ~convert_path(pass_file_hs_path, host_system_prefix,
                          base_dir_path)[1]
         THEN FatalAt("pass_file_prefix")
         ELSE IF ~is_file THEN FatalAt("pass_file_missing")
         ELSE GoOn("id_file")
    /\ UNCHANGED <<input_type, require_inpred_nomenclature, fs_kind,
                   loadedVars, otherVars>>

\* lines 194-205: the ID file
ConvertIDFile ==
    /\ pc = "id_file"
    /\ \E id_file_hs_path \in HostPaths, is_file \in BOOLEAN :
         IF ~convert_path(id_file_hs_path, host_system_prefix,
                          base_dir_path)[1]
         THEN FatalAt("id_file_prefix")
         ELSE IF ~is_file THEN FatalAt("id_file_missing")
         ELSE GoOn("input_dir")
    /\ UNCHANGED <<input_type, require_inpred_nomenclature, fs_kind,
                   loadedVars, otherVars>>

\* lines 208-220: the input directory
ConvertInputDir ==
    /\ pc = "input_dir"
    /\ \E input_dir_hs_path \in HostPaths, is_dir \in BOOLEAN :
         IF ~convert_path(input_dir_hs_path, host_system_prefix,
                          base_dir_path)[1]
         THEN FatalAt("input_dir_prefix")
         ELSE IF ~is_dir THEN FatalAt("input_dir_missing")
         ELSE GoOn("existing_output")
    /\ UNCHANGED <<input_type, require_inpred_nomenclature, fs_kind,
                   loadedVars, otherVars>>

\* the files that line 254 looks for
KeyOutFiles == {"log", "export_list", "skip_list"}

\* CheckExistingOutput that sets up the log file before it looks for the
\* files of an earlier run
CheckExistingOutputLogFirst ==
    /\ pc = "existing_output"
    /\ outfiles' = [outfiles EXCEPT !["log"] = "new"]
    /\ IF ~rewrite_output /\ \E f \in KeyOutFiles : outfiles'[f] # "absent"
       THEN Exit(0) /\ fatal' = fatal
       ELSE GoOn("id_list")
    /\ UNCHANGED <<inputVars, extraction_patterns, localAppVars, tsoppiVars,
                   available_file_paths_dict, available_file_paths_dict_L1,
                   work, work_i, applied, warnings, plan, runVars, infile,
                   id_warnings, sample_warnings, rewrite_output, otherVars>>

\* lines 252-263: the outputs of an earlier run are kept unless
\* --rewrite_output is set; otherwise the log file is opened with mode "w"
CheckExistingOutput ==
    /\ pc = "existing_output"
    /\ IF ~rewrite_output /\ \E f \in KeyOutFiles : outfiles[f] # "absent"
       THEN Exit(0) /\ fatal' = fatal /\ outfiles' = outfiles
       ELSE GoOn("id_list") /\ outfiles' = [outfiles EXCEPT !["log"] = "new"]
    /\ UNCHANGED <<inputVars, extraction_patterns, localAppVars, tsoppiVars,
                   available_file_paths_dict, available_file_paths_dict_L1,
                   work, work_i, applied, warnings, plan, runVars, infile,
                   id_warnings, sample_warnings, rewrite_output, otherVars>>

\* the words of the ID list file, as strings of characters
S_matching_method ==
    <<"m", "a", "t", "c", "h", "i", "n", "g", "_", "m", "e", "t", "h", "o", "d">>
S_target_ID == <<"t", "a", "r", "g", "e", "t", "_", "I", "D">>
S_note == <<"n", "o", "t", "e">>
S_prefix == <<"p", "r", "e", "f", "i", "x">>
S_exact == <<"e", "x", "a", "c", "t">>
S_dot == <<".">>
S_empty == <<>>

\* line.strip().split("\t") of a line given as the fields between its tabs:
\* the empty fields at both ends go with the tabs around them (the fields
\* hold no other white space)
RECURSIVE LStrip(_)
LStrip(fields) ==
    IF fields # <<>> /\ Len(Head(fields)) = 0 THEN LStrip(Tail(fields))
    ELSE fields

RECURSIVE RStrip(_)
RStrip(fields) ==
    IF fields # <<>> /\ Len(fields[Len(fields)]) = 0
    THEN RStrip(SubSeq(fields, 1, Len(fields) - 1))
    ELSE fields

StripSplit(fields) ==
    IF RStrip(LStrip(fields)) = <<>> THEN << S_empty >>
    ELSE RStrip(LStrip(fields))

\* list.index, counted from 1 (0: not in the list)
IndexOf(line_s, word) ==
    IF \E i \in DOMAIN line_s : line_s[i] = word
    THEN CHOOSE i \in DOMAIN line_s :
             line_s[i] = word /\ \A j \in 1..(i - 1) : line_s[j] # word
    ELSE 0

\* the header lines an ID list file may start with
IDHeaders ==
    { <<S_matching_method, S_target_ID>>,
      <<S_matching_method, S_target_ID, S_note>>,
      <<S_matching_method, S_note>> }

\* the data lines of an ID list file: the method, the ID and a note
IDDataLines ==
    { <<S_prefix, PfxIP>>,
      <<S_prefix, PfxS, S_note>>,
      <<S_exact, PfxS>>,
      <<S_prefix, S_dot>>,
      <<S_prefix, S_empty, S_note>>,
      <<S_prefix, S_empty>> }

\* the ID list files: a header line and up to MaxRows data lines
IDFiles ==
    { <<>> } \cup
    { <<header>> \o data_lines :
          header \in IDHeaders, data_lines \in SeqsUpTo(IDDataLines, MaxRows) }

IDsStart ==
    [header_read |-> FALSE, matching_method |-> 0, target_ID |-> 0,
     ID_prefix_list |-> <<>>, warnings |-> <<>>, fatal |-> "none"]

\* lines 298-326: the loop over the lines of the ID list file, from line k
RECURSIVE LoadIDs(_, _, _)
LoadIDs(lines, k, acc) ==
    IF k > Len(lines) THEN acc
    ELSE LET line_s == StripSplit(lines[k]) IN
         IF Len(line_s) < 2 THEN [acc EXCEPT !.fatal = "id_list_fields"]
         ELSE IF ~acc.header_read
         THEN IF IndexOf(line_s, S_matching_method) = 0
                 \/ IndexOf(line_s, S_target_ID) = 0
              THEN [acc EXCEPT !.fatal = "id_list_column"]
              ELSE LoadIDs(lines, k + 1,
                       [acc EXCEPT !.header_read = TRUE,
                                   !.matching_method =
                                       IndexOf(line_s, S_matching_method),
                                   !.target_ID = IndexOf(line_s, S_target_ID)])
         ELSE IF acc.matching_method > Len(line_s) \/ acc.target_ID > Len(line_s)
         THEN [acc EXCEPT !.fatal = "IndexError"]
         ELSE LET matching_method == line_s[acc.matching_method]
                  ID_string == line_s[acc.target_ID]
              IN  IF ID_string \notin {S_empty, S_dot}
                  THEN IF matching_method = S_prefix
                       THEN LoadIDs(lines, k + 1,
                                [acc EXCEPT !.ID_prefix_list =
                                                Append(@, ID_string)])
                       ELSE LoadIDs(lines, k + 1,
                                [acc EXCEPT !.warnings =
                                    Append(@, [line |-> k,
                                               about |-> "method"])])
                  ELSE IF ID_string = S_empty
                  THEN LoadIDs(lines, k + 1,
                           [acc EXCEPT !.warnings =
                               Append(@, [line |-> k, about |-> "ID"])])
                  ELSE LoadIDs(lines, k + 1, acc)

\* lines 292-327: the ID list is loaded
LoadIDList ==
    /\ pc = "id_list"
    /\ \E id_infile \in IDFiles :
         LET loaded == LoadIDs(id_infile, 1, IDsStart) IN
         /\ infile' = id_infile
         /\ ID_prefix_list' = loaded.ID_prefix_list
         /\ id_warnings' = loaded.warnings
         /\ IF loaded.fatal # "none" THEN FatalAt(loaded.fatal)
            ELSE GoOn("pattern_file")
    /\ UNCHANGED <<input_type, require_inpred_nomenclature, fs_kind,
                   extraction_patterns, localAppVars, tsoppiVars,
                   available_file_paths_dict, available_file_paths_dict_L1,
                   work, work_i, applied, warnings, plan, runVars,
                   sample_warnings, outVars, otherVars>>

\* int() of a string of digits
DigitValue(c) == IF c = "0" THEN 0 ELSE IndexOf(DigitSeq, c)

IsIntString(s) == Len(s) > 0 /\ \A i \in DOMAIN s : s[i] \in Digits

RECURSIVE IntOf(_)
IntOf(s) ==
    IF s = <<>> THEN 0
    ELSE 10 * IntOf(SubSeq(s, 1, Len(s) - 1)) + DigitValue(s[Len(s)])

\* the lines a pattern file may hold: the input type, the minimum file
\* count, the category and the pattern
PatternLines ==
    { <<"LocalApp", <<"1">>, "general_all", << Lit(<<"p", "1">>) >> >>,
      <<"LocalApp", <<"1", "2">>, "general_all", << Lit(<<"p", "1">>) >> >>,
      <<"LocalApp", <<"2">>, "general_bcl", << DeepTok, Lit(cX) >> >>,
      <<"TSOPPI", <<"3">>, "T_general", << Lit(cX) >> >>,
      <<"TSOPPI", <<"1">>, "T_other", << Lit(cX) >> >>,
      <<"LocalApp", <<"1">>, "general_all">>,
      <<"LocalApp", <<"x">>, "general_all", << Lit(<<"p", "1">>) >> >> }

PatternFiles == SeqsUpTo(PatternLines, MaxRows)

\* lines 336-358: the loop over the lines of the pattern file, from line k
RECURSIVE LoadPatternLines(_, _, _, _)
LoadPatternLines(lines, k, type, patterns) ==
    IF k > Len(lines) THEN [fatal |-> "none", patterns |-> patterns]
    ELSE LET line_s == StripSplit(lines[k]) IN
         IF Len(line_s) < 4
         THEN [fatal |-> "pattern_fields", patterns |-> patterns]
         ELSE IF ~IsIntString(line_s[2])
         THEN [fatal |-> "ValueError", patterns |-> patterns]
         ELSE LET row == Row(line_s[1], IntOf(line_s[2]), line_s[3], line_s[4])
                  loaded == LoadRows(<<row>>, type, patterns)
              IN  IF loaded.exit # -1
                  THEN [fatal |-> "pattern_category", patterns |-> patterns]
                  ELSE LoadPatternLines(lines, k + 1, type, loaded.patterns)

\* lines 329-358: the pattern file is loaded
LoadPatternFile ==
    /\ pc = "pattern_file"
    /\ \E epp_infile \in PatternFiles :
         LET loaded == LoadPatternLines(epp_infile, 1, input_type,
                                        EmptyPatterns) IN
         /\ infile' = epp_infile
         /\ extraction_patterns' = loaded.patterns
         /\ IF loaded.fatal # "none" THEN FatalAt(loaded.fatal)
            ELSE GoOn(IF input_type = "LocalApp" THEN "localapp_files"
                      ELSE "sample_list")
    /\ UNCHANGED <<inputVars, localAppVars, tsoppiVars,
                   available_file_paths_dict, available_file_paths_dict_L1,
                   work, work_i, applied, warnings, plan, runVars,
                   id_warnings, sample_warnings, outVars, otherVars>>

\* check_file_list_size: the error code unless the list holds one file
check_file_list_size(file_list, error_code) ==
    IF Len(file_list) = 0 THEN error_code
    ELSE IF Len(file_list) > 1 THEN error_code
    ELSE 0

\* what glob.glob may find for a path pattern
FileLists == SeqsUpTo({"f"}, MaxListLen)

\* lines 361-400: the error lines of the LocalApp logs are copied into the
\* inherited errors file, and the files of a LocalApp directory are looked
\* for
LocateLocalAppFiles ==
    /\ pc = "localapp_files"
    /\ \E logs_intermediates, error_lines \in BOOLEAN,
          LA_samplesheet_list \in FileLists, LA_logfile_list \in FileLists :
         /\ outfiles' = IF logs_intermediates /\ error_lines
                        THEN [outfiles EXCEPT !["inherited_errors"] = "new"]
                        ELSE outfiles
         /\ IF ~logs_intermediates THEN FatalAt("logs_dir")
            ELSE IF check_file_list_size(LA_samplesheet_list, 13) # 0
            THEN Fatal("sample_sheet_count",
                       check_file_list_size(LA_samplesheet_list, 13))
            ELSE IF check_file_list_size(LA_logfile_list, 14) # 0
            THEN Fatal("log_file_count",
                       check_file_list_size(LA_logfile_list, 14))
            ELSE GoOn("sample_sheet")
    /\ UNCHANGED <<inputVars, extraction_patterns, localAppVars, tsoppiVars,
                   available_file_paths_dict, available_file_paths_dict_L1,
                   work, work_i, applied, warnings, plan, runVars, infile,
                   id_warnings, sample_warnings, rewrite_output, otherVars>>

\* the header lines of a sample_list.tsv, without the leading "#"
SampleListHeaders ==
    { <<"sample_type", "sample_output_ID">>,
      <<"sample_output_ID", "sample_name", "sample_type">>,
      <<"sample_type", "sample_name">> }

\* lines 575-589: the header line of the sample list of a patient directory
ReadSampleListHeader ==
    /\ pc = "sample_list"
    /\ \E line_s \in SampleListHeaders :
         /\ infile' = <<line_s>>
         /\ IF IndexOf(line_s, "sample_type") = 0
               \/ IndexOf(line_s, "sample_output_ID") = 0
            THEN FatalAt("sample_list_column")
            ELSE GoOn("sample_list_rows")
    /\ UNCHANGED <<inputVars, extraction_patterns, localAppVars, tsoppiVars,
                   available_file_paths_dict, available_file_paths_dict_L1,
                   work, work_i, applied, warnings, plan, runVars,
                   id_warnings, sample_warnings, outVars, otherVars>>

\* what a run may find in the output directory, with the option
\* --rewrite_output it is given
OldFiles(names) == [f \in OutFileNames |-> IF f \in names THEN "old" ELSE "absent"]

OutputStarts ==
    { <<FALSE, NoOutFiles>>,
      <<FALSE, OldFiles({"log"})>>,
      <<FALSE, OldFiles({"export_list", "script"})>>,
      <<FALSE, OldFiles({"skip_list", "inherited_errors"})>>,
      <<TRUE, OldFiles(OutFileNames)>> }

\* the state before the options are checked
InitLoad ==
    /\ MainStart("output_file_prefix")
    /\ \E start \in OutputStarts :
           rewrite_output = start[1] /\ outfiles = start[2]
    /\ input_type \in InputTypes
    /\ require_inpred_nomenclature \in BOOLEAN
    /\ ID_prefix_list = <<>>
    /\ fs_kind = [i \in 1..NumL1 |-> "file"]
    /\ MatchIdle
    /\ ScriptIdle

NextLoad ==
    \/ CheckOutputFilePrefix
    \/ ConvertOutputDir
    \/ ConvertPassFile
    \/ ConvertIDFile
    \/ ConvertInputDir
    \/ CheckExistingOutput
    \/ LoadIDList
    \/ LoadPatternFile
    \/ LocateLocalAppFiles
    \/ ReadSampleSheet
    \/ ReadSampleListHeader

SpecLoad == InitLoad /\ [][NextLoad]_vars

\* C13: Every fatal precondition ends the run with an exit code of its own:
\* the exit code of a run that ended at a fatal condition is the exit code
\* of no other fatal condition of the program.
C13_DistinctExitCodes ==
    (pc = "exit" /\ fatal \in FatalConditions) =>
        /\ exit_code = ExitCodes[fatal]
        /\ exit_code # 0
        /\ \A other \in FatalConditions \ {fatal} :
               ExitCodes[other] # exit_code

(***************************************************************************)
(* The pattern file, once the loop over its lines has ended.               *)
(***************************************************************************)
\* the pattern file is the file read last
PatternFileRead ==
    \/ pc \in {"localapp_files", "sample_list"}
    \/ pc = "exit" /\ fatal \in {"pattern_fields", "pattern_category",
                                 "ValueError"}

TooShort(row) == Len(row) < 4
CountNotInt(row) == Len(row) >= 4 /\ ~IsIntString(row[2])
UnknownCategory(row) == Len(row) >= 3 /\ row[3] \notin PatternCategories

\* the rows of the active input type for a category and a pattern
RowsFor(category, pattern) ==
    {k \in DOMAIN infile :
        /\ infile[k][1] = input_type
        /\ infile[k][3] = category
        /\ infile[k][4] = pattern}

\* every category maps exactly the patterns of the rows of the active input
\* type, each to the minimum count of the last such row
PatternsAsLastRows ==
    \A category \in PatternCategories :
        LET d == extraction_patterns[category] IN
        /\ \A k \in DOMAIN infile :
               (infile[k][1] = input_type /\ infile[k][3] = category) =>
                   \E i \in DOMAIN d : d[i].pattern = infile[k][4]
        /\ \A i \in DOMAIN d :
               /\ RowsFor(category, d[i].pattern) # {}
               /\ LET last == CHOOSE k \in RowsFor(category, d[i].pattern) :
                                  \A j \in RowsFor(category, d[i].pattern) :
                                      j <= k
                  IN  d[i].min = IntOf(infile[last][2])
        /\ \A i, j \in DOMAIN d : d[i].pattern = d[j].pattern => i = j

Offending(k) ==
    \/ TooShort(infile[k])
    \/ CountNotInt(infile[k])
    \/ UnknownCategory(infile[k])

FirstOffending ==
    CHOOSE k \in DOMAIN infile : Offending(k) /\ \A j \in 1..(k - 1) : ~Offending(j)

SheetRead ==
    /\ input_type = "LocalApp"
    /\ \/ pc = "log_file"
       \/ /\ pc = "exit"
          /\ \/ fatal \in {"sheet_column", "sample_type", "no_data_section"}
             \/ exit_code = 0 /\ ~plan.written

UnknownType(row) == row.sample_type \notin {"DNA", "RNA"}

RowPasses(row) ==
    Passes(row.sample_id, ID_prefix_list, require_inpred_nomenclature)

\* C15 as stated: any data row of the data section whose Sample_Type is
\* outside {DNA, RNA} ends the run with exit 16, whether or not its
\* Sample_ID matches the ID list or follows the nomenclature.
C15_UnknownTypeAlwaysFatal ==
    (SheetRead /\ fatal # "sheet_column") =>
        ((\E k \in DOMAIN infile.rows : UnknownType(infile.rows[k]))
             => (pc = "exit" /\ exit_code = 16))

\* C15: A data row of the data section whose Sample_Type is outside
\* {DNA, RNA} ends the run with exit 16 exactly when its Sample_ID matches
\* the ID list and, if the nomenclature is required, follows it; a row that
\* fails either test is skipped whatever its Sample_Type.
C15_UnknownTypeFatalIfEligible ==
    (SheetRead /\ fatal # "sheet_column") =>
        ((pc = "exit" /\ exit_code = 16 /\ fatal = "sample_type") <=>
             \E k \in DOMAIN infile.rows :
                 UnknownType(infile.rows[k]) /\ RowPasses(infile.rows[k]))

\* a sheet with a row of unknown type and eligible ID has ended the run
C15_Witness ==
    /\ SheetRead
    /\ exit_code = 16
    /\ \E k \in DOMAIN infile.rows :
           UnknownType(infile.rows[k]) /\ RowPasses(infile.rows[k])
    /\ DNA_sample_list # <<>>

\* the rows of the sheet that give a sample of the run
EligibleRows ==
    {k \in DOMAIN infile.rows :
        RowPasses(infile.rows[k]) /\ ~UnknownType(infile.rows[k])}

\* the loop over the lines of the sheet has reached the end of the file
SheetReadToEnd == SheetRead /\ fatal \notin {"sheet_column", "sample_type"}

NothingWritten == ~plan.written /\ script = <<>> /\ ~script_run

IDListRead ==
    \/ pc = "pattern_file"
    \/ pc = "exit" /\ fatal \in {"id_list_fields", "id_list_column",
                                 "IndexError"}

\* the first line names both columns
IDHeaderFound ==
    /\ infile # <<>>
    /\ IndexOf(infile[1], S_matching_method) # 0
    /\ IndexOf(infile[1], S_target_ID) # 0

\* the fields of a data line, as they stand between the tabs of the line
MethodField(line) == line[IndexOf(infile[1], S_matching_method)]
IDField(line) == line[IndexOf(infile[1], S_target_ID)]

Accepted(line) ==
    IDField(line) \notin {S_empty, S_dot} /\ MethodField(line) = S_prefix

\* C17: A data row of the ID list is added to the list exactly when its ID
\* is neither empty nor "." and its method is "prefix"; every other data
\* row is ignored with a warning, and no data row ends the run.
C17_RowAddedOrWarned ==
    (IDListRead /\ IDHeaderFound) =>
        LET added == SelectSeq(Tail(infile), Accepted) IN
        /\ pc # "exit"
        /\ ID_prefix_list = [i \in DOMAIN added |-> IDField(added[i])]
        /\ {id_warnings[i].line : i \in DOMAIN id_warnings} =
               {k \in 2..Len(infile) : ~Accepted(infile[k])}

(***************************************************************************)
(* SADET.py: main with a pattern file that holds a pattern of every        *)
(* category, and with patient directories of every combination of roles   *)
(***************************************************************************)
\* the first component of the pattern of every category
CategoryTag ==
    [ general_all           |-> <<"p", "1">>,
      general_bcl           |-> <<"g", "b">>,
      sample_DNA            |-> <<"s", "d">>,
      sample_RNA            |-> <<"s", "r">>,
      sample_DNA_bcl        |-> <<"d", "b">>,
      sample_RNA_bcl        |-> <<"r", "b">>,
      T_general             |-> cX,
      T_any_DNA             |-> <<"t", "a">>,
      T_DNA_tumor_plus      |-> <<"t", "p">>,
      T_DNA_tumor           |-> <<"d", "t">>,
      T_DNA_normal          |-> <<"d", "n">>,
      T_RNA_tumor           |-> <<"r", "t">>,
      T_DNA_tumor_RNA_tumor |-> <<"t", "r">> ]

\* a pattern file with one pattern for every category
AllCategoryRows ==
    << Row("LocalApp", 1, "general_all", << Lit(CategoryTag.general_all) >>),
       Row("LocalApp", 1, "general_bcl", << Lit(CategoryTag.general_bcl) >>),
       Row("LocalApp", 1, "sample_DNA",
           << Lit(CategoryTag.sample_DNA), Ph("PAIR_ID", <<>>),
              Ph("SAMPLE_ID", <<>>) >>),
       Row("LocalApp", 1, "sample_RNA",
           << Lit(CategoryTag.sample_RNA), Ph("PAIR_ID", <<>>),
              Ph("SAMPLE_ID", <<>>) >>),
       Row("LocalApp", 1, "sample_DNA_bcl",
           << Lit(CategoryTag.sample_DNA_bcl), Ph("SAMPLE_ID", <<>>) >>),
       Row("LocalApp", 1, "sample_RNA_bcl",
           << Lit(CategoryTag.sample_RNA_bcl), Ph("SAMPLE_ID", <<>>) >>),
       Row("TSOPPI", 1, "T_general", << Lit(CategoryTag.T_general) >>),
       Row("TSOPPI", 1, "T_any_DNA", << Lit(CategoryTag.T_any_DNA) >>),
       Row("TSOPPI", 1, "T_DNA_tumor_plus",
           << Lit(CategoryTag.T_DNA_tumor_plus), Ph("DT_SAMPLE_ID", <<>>) >>),
       Row("TSOPPI", 1, "T_DNA_tumor",
           << Lit(CategoryTag.T_DNA_tumor), Ph("DT_SAMPLE_ID", <<>>) >>),
       Row("TSOPPI", 1, "T_DNA_normal",
           << Lit(CategoryTag.T_DNA_normal), Ph("DN_SAMPLE_ID", <<>>) >>),
       Row("TSOPPI", 1, "T_RNA_tumor",
           << Lit(CategoryTag.T_RNA_tumor), Ph("RT_SAMPLE_ID", <<>>) >>),
       Row("TSOPPI", 1, "T_DNA_tumor_RNA_tumor",
           << Lit(CategoryTag.T_DNA_tumor_RNA_tumor),
              Ph("DT_SAMPLE_ID", <<>>), Ph("RT_SAMPLE_ID", <<>>) >>) >>

\* the sample lists of patient directories: every set of roles with
\* eligible samples, a list with a sample that may not be eligible, and
\* lists with two samples of one type
RoleSampleLists ==
    { <<>>,
      << SampleRow("DNA_tumor", IDG) >>,
      << SampleRow("DNA_normal", IDG) >>,
      << SampleRow("RNA_tumor", IDG) >>,
      << SampleRow("DNA_tumor", IDG), SampleRow("DNA_normal", IDG) >>,
      << SampleRow("DNA_tumor", IDG), SampleRow("RNA_tumor", IDG) >>,
      << SampleRow("DNA_normal", IDG), SampleRow("RNA_tumor", IDG) >>,
      << SampleRow("DNA_tumor", IDG), SampleRow("DNA_normal", IDG),
         SampleRow("RNA_tumor", IDG) >>,
      << SampleRow("DNA_tumor", IDG), SampleRow("DNA_normal", IDS) >>,
      << SampleRow("DNA_tumor", IDG), SampleRow("DNA_tumor", IDS) >>,
      << SampleRow("RNA_tumor", IDG), SampleRow("RNA_tumor", IDG) >> }

\* every first-level entry is a patient directory
InitSelect ==
    /\ MainStart("load_patterns")
    /\ rewrite_output = FALSE
    /\ outfiles = LogOpened
    /\ input_type \in InputTypes
    /\ require_inpred_nomenclature \in BOOLEAN
    /\ ID_prefix_list \in IDLists
    /\ fs_kind = [i \in 1..NumL1 |-> "dir"]
    /\ MatchIdle
    /\ ScriptIdle

LoadAllCategories == LoadPatternsFrom({AllCategoryRows})

TsoppiL1ManifestRoles == TsoppiL1ManifestFrom(RoleSampleLists)

NextSelect ==
    \/ LoadAllCategories
    \/ ReadSampleSheet
    \/ ReadLogFile
    \/ TsoppiL1ManifestRoles
    \/ ApplyPattern
    \/ TsoppiMergeL1

SpecSelect == InitSelect /\ [][NextSelect]_vars

\* the category of a pattern application: the one whose tag follows the root
RootOf(item) ==
    IF input_type = "LocalApp" THEN input_dir_cont_path ELSE L1Path(l1_index)

ItemCategories(item) ==
    {c \in PatternCategories :
        /\ Len(item.regex) > Len(RootOf(item))
        /\ item.regex[Len(RootOf(item)) + 1] = Lit(CategoryTag[c])}

\* the categories of the pattern applications of the root at hand
WorkCategories == UNION {ItemCategories(work[i]) : i \in DOMAIN work}

\* the roles of the eligible samples of the patient directory at hand
R == DOMAIN eligible_sample_dict

\* the categories C18 selects for the roles R
SelectedFor(roles) ==
    {"T_general"}
    \cup (IF "DNA_tumor" \in roles THEN {"T_DNA_tumor"} ELSE {})
    \cup (IF "DNA_tumor" \in roles
             /\ ("DNA_normal" \in roles \/ "RNA_tumor" \in roles)
          THEN {"T_DNA_tumor_plus"} ELSE {})
    \cup (IF "DNA_tumor" \in roles /\ "RNA_tumor" \in roles
          THEN {"T_DNA_tumor_RNA_tumor"} ELSE {})
    \cup (IF "DNA_tumor" \in roles \/ "DNA_normal" \in roles
          THEN {"T_any_DNA"} ELSE {})
    \cup (IF "DNA_normal" \in roles THEN {"T_DNA_normal"} ELSE {})
    \cup (IF "RNA_tumor" \in roles THEN {"T_RNA_tumor"} ELSE {})

\* C18: For a patient directory that is processed, the categories whose
\* patterns are applied are those selected by the set R of eligible roles:
\* T_general always, T_DNA_tumor iff DNA_tumor, T_DNA_tumor_plus iff
\* DNA_tumor with DNA_normal or RNA_tumor, T_DNA_tumor_RNA_tumor iff
\* DNA_tumor and RNA_tumor, T_any_DNA iff DNA_tumor or DNA_normal,
\* T_DNA_normal iff DNA_normal, T_RNA_tumor iff RNA_tumor; every pattern
\* that is applied belongs to a selected category, and every selected
\* category has been applied when the directory is done.
C18_TsoppiCategoriesByRoles ==
    /\ []((input_type = "TSOPPI" /\ pc = "classify") =>
              /\ WorkCategories = SelectedFor(R)
              /\ \A i \in DOMAIN work :
                     Cardinality(ItemCategories(work[i])) = 1)
    /\ [][(input_type = "TSOPPI" /\ pc = "classify" /\ applied' # applied) =>
              /\ applied' = Append(applied, work[work_i].regex)
              /\ ItemCategories(work[work_i]) \subseteq SelectedFor(R)
              /\ ItemCategories(work[work_i]) # {}]_vars
    /\ [][(input_type = "TSOPPI" /\ pc = "classify" /\ pc' # "classify") =>
              (work_i > Len(work) /\ Len(work) = Cardinality(SelectedFor(R)))]_vars

\* a patient directory with a tumor and a normal DNA sample is done
C18_Witness ==
    /\ input_type = "TSOPPI"
    /\ pc = "classify"
    /\ R = {"DNA_tumor", "DNA_normal"}
    /\ work_i > Len(work)
    /\ Len(applied) >= 4

\* the samples of a list are the eligible rows of the sheet with that type,
\* each with its own pair ID (the last row of a sample ID counts)
ListIsEligibleRows(list, type) ==
    /\ \A i \in DOMAIN list :
           \E k \in EligibleRows :
               /\ infile.rows[k].sample_type = type
               /\ infile.rows[k].sample_id = list[i].sample_id
               /\ infile.rows[k].pair_id = list[i].pair_id
    /\ \A k \in EligibleRows :
           infile.rows[k].sample_type = type =>
               \E i \in DOMAIN list : list[i].sample_id = infile.rows[k].sample_id

\* the pattern applications of a category
ItemsOf(category) ==
    {i \in DOMAIN work : category \in ItemCategories(work[i])}

\* the pattern of a sample category with the IDs of a sample filled in
PatternFor(category, sample) ==
    LitPath(input_dir_cont_path)
    \o << Lit(CategoryTag[category]) >>
    \o (IF category \in {"sample_DNA", "sample_RNA"}
        THEN << Lit(sample.pair_id) >> ELSE <<>>)
    \o << Lit(sample.sample_id) >>

\* the category is applied once for every sample of the list, with the IDs
\* of that sample, or not at all
OncePerSample(category, list, wanted) ==
    IF wanted
    THEN /\ Cardinality(ItemsOf(category)) = Len(list)
         /\ \A j \in DOMAIN list :
                Cardinality({i \in ItemsOf(category) :
                    work[i].regex = PatternFor(category, list[j])}) = 1
    ELSE ItemsOf(category) = {}

\* C19: In a LocalApp run the samples kept are the eligible rows of the sheet;
\* general_all is applied always; general_bcl, sample_DNA_bcl and
\* sample_RNA_bcl are applied iff the log holds the BCL marker; the
\* sample_DNA(_bcl) patterns are applied once per eligible DNA sample and the
\* sample_RNA(_bcl) patterns once per eligible RNA sample, with the
\* Sample_ID and Pair_ID of that sample and of no other.
C19_LocalAppCategories ==
    /\ []((input_type = "LocalApp" /\ pc = "log_file") =>
              /\ ListIsEligibleRows(DNA_sample_list, "DNA")
              /\ ListIsEligibleRows(RNA_sample_list, "RNA"))
    /\ []((input_type = "LocalApp" /\ pc = "classify") =>
              /\ from_BCL = infile.FastqGeneration
              /\ Cardinality(ItemsOf("general_all")) = 1
              /\ Cardinality(ItemsOf("general_bcl")) = IF from_BCL THEN 1 ELSE 0
              /\ OncePerSample("sample_DNA", DNA_sample_list, TRUE)
              /\ OncePerSample("sample_RNA", RNA_sample_list, TRUE)
              /\ OncePerSample("sample_DNA_bcl", DNA_sample_list, from_BCL)
              /\ OncePerSample("sample_RNA_bcl", RNA_sample_list, from_BCL)
              /\ \A i \in DOMAIN work :
                     Cardinality(ItemCategories(work[i])) = 1
              /\ applied = [i \in 1..(work_i - 1) |-> work[i].regex])
    /\ [][(input_type = "LocalApp" /\ pc = "log_file") =>
              (DNA_sample_list' = DNA_sample_list
               /\ RNA_sample_list' = RNA_sample_list)]_vars

\* a run from BCL files with a DNA and an RNA sample has applied its patterns
C19_Witness ==
    /\ input_type = "LocalApp"
    /\ pc = "classify"
    /\ from_BCL
    /\ DNA_sample_list # <<>>
    /\ RNA_sample_list # <<>>
    /\ work_i > Len(work)
    /\ Len(applied) = 6

(***************************************************************************)
(* One application of a pattern.                                           *)
(***************************************************************************)
\* the root of the patterns at hand: input_dir_cont_path or L1_path
RootPath ==
    IF input_type = "LocalApp" THEN input_dir_cont_path ELSE L1Path(l1_index)

\* the pattern matches the first components of the path and not all of it
OnlyPrefixMatches(pattern, path) ==
    /\ ~FullMatch(pattern, path)
    /\ \E k \in 1..(Len(path) - 1) : FullMatch(pattern, SubSeq(path, 1, k))

\* the path is a directory above a path that the pattern matches
AboveAMatch(pattern, path, dict) ==
    \E i \in DOMAIN dict :
        FullMatch(pattern, dict[i].path) /\ IsStrictAncestor(path, dict[i].path)

OnAllowList(sample_id) ==
    find_ID_match(sample_id, ID_prefix_list, "prefix") # <<>>

\* the sample ID begins with the tag "IP"
HasIPTag(sample_id) == IsPrefix(<<"I", "P">>, sample_id)

\* strings given to is_InPreD_ID: a compliant ID, and IDs that lack the
\* tag, have it in lower case or have it after another character
NomenclatureCandidates ==
    { IDG, IDS, PfxIP, Tail(IDG), Tail(Tail(IDG)), <<"X">> \o IDG,
      [IDG EXCEPT ![1] = "i"], [IDG EXCEPT ![2] = "p"],
      [IDG EXCEPT ![1] = "P", ![2] = "I"] }

\* the sample IDs of the LocalApp run
SheetSampleIDs ==
    {DNA_sample_list[i].sample_id : i \in DOMAIN DNA_sample_list}
    \cup {RNA_sample_list[i].sample_id : i \in DOMAIN RNA_sample_list}

\* the sample IDs of the rows that match the ID list and fail the required
\* nomenclature, in the order of the rows
NonCompliant(rows) ==
    LET failed == SelectSeq(rows, LAMBDA r :
                      /\ OnAllowList(r.sample_id)
                      /\ require_inpred_nomenclature
                      /\ ~is_InPreD_ID(r.sample_id))
    IN  [i \in DOMAIN failed |-> failed[i].sample_id]

\* TSOPPI: the first-level entries whose sample_list.tsv has been read
ManifestsRead == {i \in 1..NumL1 : l1_status[i] \in {"eligible", "ineligible"}}

\* TSOPPI: the warnings of the entries i..NumL1
RECURSIVE NonCompliantFrom(_)
NonCompliantFrom(i) ==
    IF i > NumL1 THEN <<>>
    ELSE (IF i \in ManifestsRead THEN NonCompliant(l1_manifest[i]) ELSE <<>>)
         \o NonCompliantFrom(i + 1)

\* C21: The option --require_inpred_nomenclature only gates exclusion: a
\* sample of the sample sheet (LocalApp) or of sample_list.tsv (TSOPPI) is
\* eligible iff its ID matches the ID list and, with the option on, is
\* accepted by is_InPreD_ID (with the option off the answer of is_InPreD_ID
\* plays no part); a matching sample that fails the nomenclature is left
\* out with a warning and does not end the run; is_InPreD_ID is a function
\* of the ID alone and rejects every ID that does not begin with "IP".
C21_FlagOnlyGatesExclusion ==
    /\ \A s \in NomenclatureCandidates : ~HasIPTag(s) => ~is_InPreD_ID(s)
    /\ is_InPreD_ID(IDG)
    /\ SheetReadToEnd =>
           /\ \A k \in DOMAIN infile.rows :
                  LET sample_id == infile.rows[k].sample_id IN
                  sample_id \in SheetSampleIDs <=>
                      /\ OnAllowList(sample_id)
                      /\ require_inpred_nomenclature => is_InPreD_ID(sample_id)
           /\ sample_warnings = NonCompliant(infile.rows)
    /\ (/\ SheetRead
        /\ fatal # "sheet_column"
        /\ infile.data_tag # "None"
        /\ \A k \in DOMAIN infile.rows :
               UnknownType(infile.rows[k]) =>
                   \/ ~OnAllowList(infile.rows[k].sample_id)
                   \/ /\ require_inpred_nomenclature
                      /\ ~is_InPreD_ID(infile.rows[k].sample_id))
           => (fatal = "none" /\ exit_code \in {-1, 0})
    /\ (input_type = "TSOPPI" /\ ManifestsRead # {}) =>
           LET last == CHOOSE i \in ManifestsRead :
                           \A j \in ManifestsRead : j <= i
               rows == l1_manifest[last]
               eligible == {k \in DOMAIN rows :
                              /\ OnAllowList(rows[k].sample_id)
                              /\ require_inpred_nomenclature =>
                                     is_InPreD_ID(rows[k].sample_id)}
           IN  /\ DOMAIN eligible_sample_dict =
                      {rows[k].sample_type : k \in eligible}
               /\ \A k \in eligible :
                      (\A j \in eligible :
                           rows[j].sample_type = rows[k].sample_type => j <= k)
                          => eligible_sample_dict[rows[k].sample_type] =
                                 rows[k].sample_id
               /\ sample_count = Len(rows)
    /\ input_type = "TSOPPI" =>
           /\ sample_warnings = NonCompliantFrom(1)
           /\ fatal \in {"none", "plan_prefix", "plan_status"}
    /\ require_inpred_nomenclature =>
           /\ \A s \in SheetSampleIDs : HasIPTag(s)
           /\ \A t \in DOMAIN eligible_sample_dict :
                  HasIPTag(eligible_sample_dict[t])

\* with the option on, a sheet with a matching sample that fails the
\* nomenclature and a sample that follows it has been read: the first is
\* warned about, the second is a sample of the run, which goes on
C21_Witness ==
    /\ pc = "log_file"
    /\ require_inpred_nomenclature
    /\ \E k \in DOMAIN infile.rows :
           /\ OnAllowList(infile.rows[k].sample_id)
           /\ ~is_InPreD_ID(infile.rows[k].sample_id)
           /\ infile.rows[k].sample_id \notin SheetSampleIDs
           /\ sample_warnings = <<infile.rows[k].sample_id>>
    /\ SheetSampleIDs # {}

(***************************************************************************)
(* The warning about a pattern with too few matches (lines 515-518,        *)
(* 540-543 and 653-657).                                                   *)
(***************************************************************************)
\* the pattern application at hand, and the number of keys it matches
ItemAtHand == work[work_i]

MatchCount ==
    Cardinality({i \in DOMAIN CurDict :
                     FullMatch(ItemAtHand.regex, CurDict[i].path)})

UnderMatched == MatchCount < ItemAtHand.expected_matches

\* a step of the classification that applies a pattern
PatternApplied == pc = "classify" /\ applied' # applied

\* the warning and the continuation, common to both readings of C22
WarnedAndGoesOn ==
    /\ warnings' = IF UnderMatched THEN Append(warnings, ItemAtHand.regex)
                   ELSE warnings
    /\ pc' = "classify" /\ exit_code' = -1 /\ fatal' = "none"
    /\ work' = work /\ work_i' = work_i + 1
    /\ applied' = Append(applied, ItemAtHand.regex)

\* the patterns of the root at hand that have been applied
AppliedToRoot == SubSeq(applied, Len(applied) - (work_i - 2), Len(applied))

\* C22 as stated: a warning is emitted iff the number of matches is below
\* the minimum; an under-matched pattern does not end the run and changes
\* no disposition.
C22_UnderMatchedChangesNothing ==
    [][PatternApplied =>
          /\ WarnedAndGoesOn
          /\ UnderMatched => CurDict' = CurDict]_vars

\* C22: For every applied pattern a warning is emitted iff its number of
\* matches is below the minimum of the pattern; the application never
\* ends the run, the patterns that remain are applied after it, and the
\* shortfall changes nothing in the classification: the matches of an
\* under-matched pattern become Export (Ignore if they are above another
\* match) as the matches of any pattern do, and every other path keeps
\* its status or, above a match, becomes Ignore.
C22_WarningIffUnderMatched ==
    /\ [][PatternApplied =>
             /\ WarnedAndGoesOn
             /\ DictKeys(CurDict') = DictKeys(CurDict)
             /\ \A i \in DOMAIN CurDict :
                    LET path == CurDict[i].path
                        after == DictGet(CurDict', path)
                    IN  IF AboveAMatch(ItemAtHand.regex, path, CurDict)
                        THEN after = "I"
                        ELSE IF FullMatch(ItemAtHand.regex, path)
                        THEN after = "E"
                        ELSE after = CurDict[i].status]_vars
    /\ [][(pc = "classify" /\ work_i <= Len(work)) => PatternApplied]_vars
    /\ [](pc = "classify" =>
             /\ work_i \in 1..(Len(work) + 1)
             /\ Len(applied) >= work_i - 1
             /\ AppliedToRoot = [k \in 1..(work_i - 1) |-> work[k].regex])
    /\ [](\A k \in DOMAIN warnings :
              \E j \in DOMAIN applied : applied[j] = warnings[k])

\* an under-matched pattern that has matches has been applied, with a
\* warning and an exported match, and the next pattern has been applied too
C22_Witness ==
    /\ pc = "classify"
    /\ work_i > 2
    /\ LET item == work[work_i - 2] IN
       /\ item.expected_matches > 1
       /\ \E k \in DOMAIN warnings : warnings[k] = item.regex
       /\ \E i \in DOMAIN CurDict :
              FullMatch(item.regex, CurDict[i].path) /\ CurDict[i].status = "E"

(***************************************************************************)
(* The output files of an earlier run (lines 252-263).                     *)
(***************************************************************************)
\* overwriting is disabled and the log, the export list or the skip list
\* of the prefix exists
KeptOutputExists ==
    /\ ~rewrite_output
    /\ \E f \in KeyOutFiles : outfiles[f] = "old"

\* no output file has been opened for writing
NoOutFileTouched == \A f \in OutFileNames : outfiles[f] # "new"

\* the positions of main before line 252
OptionChecks ==
    {"output_file_prefix", "output_dir", "pass_file", "id_file", "input_dir",
     "existing_output"}

\* the fatal conditions of lines 141-220
OptionFatals ==
    {"output_file_prefix", "output_dir_prefix", "output_dir_create",
     "pass_file_prefix", "pass_file_missing", "id_file_prefix",
     "id_file_missing", "input_dir_prefix", "input_dir_missing"}

\* C23 as stated: when overwriting is disabled and the log, the export
\* list or the skip list of the prefix exists, the run ends with exit
\* code 0 and has written none of the output files.
C23_ExistingOutputExitsZero ==
    KeptOutputExists =>
        /\ pc = "exit" => exit_code = 0
        /\ NoOutFileTouched /\ NothingWritten

\* C23: When overwriting is disabled and the log, the export list or the
\* skip list of the prefix exists, the run writes none of the log, the
\* lists, the inherited errors file and the script, and it never gets past
\* the test of line 252: it ends there with exit code 0, unless one of the
\* option checks before that line has ended it with its own exit code
\* (1 to 9).
C23_ExistingOutputIsKept ==
    /\ [](KeptOutputExists =>
             /\ NoOutFileTouched /\ NothingWritten
             /\ pc \in OptionChecks \cup {"exit"}
             /\ pc = "exit" =>
                    \/ exit_code = 0 /\ fatal = "none"
                    \/ exit_code \in 1..9 /\ fatal \in OptionFatals)
    /\ [][(pc = "existing_output" /\ KeptOutputExists) =>
             /\ pc' = "exit" /\ exit_code' = 0
             /\ outfiles' = outfiles]_vars
    /\ [][(pc = "existing_output" /\ ~KeptOutputExists) =>
             /\ pc' = "id_list" /\ exit_code' = -1
             /\ outfiles' = [outfiles EXCEPT !["log"] = "new"]]_vars

\* a run has ended with exit code 0 at line 258: the skip list of an
\* earlier run exists, and no log has been created
C23_Witness ==
    /\ pc = "exit" /\ exit_code = 0
    /\ ~rewrite_output
    /\ outfiles["skip_list"] = "old"
    /\ outfiles["log"] = "absent"
    /\ ID_prefix_list = <<>>

(***************************************************************************)
(* Ignore entries and the Export entries below them.                       *)
(***************************************************************************)
\* every entry of d with status "I" has an entry with status "E" below it
IgnoreHasExportBelow(d) ==
    \A i \in DOMAIN d :
        d[i].status = "I" =>
            \E j \in DOMAIN d :
                d[j].status = "E" /\ IsStrictAncestor(d[i].path, d[j].path)

\* C24: After any sequence of reclassify_matching_paths calls on a map
\* that started all Skip, every path that is Ignore has a strict descendant
\* in the map that is Export, also when Export entries below it have been
\* changed to Ignore by a later match.
C24_IgnoreHasExportedDescendant ==
    /\ IgnoreHasExportBelow(available_file_paths_dict)
    /\ IgnoreHasExportBelow(available_file_paths_dict_L1)
    /\ applied = <<>> =>
           /\ \A i \in DOMAIN available_file_paths_dict :
                  available_file_paths_dict[i].status = "S"
           /\ \A i \in DOMAIN available_file_paths_dict_L1 :
                  available_file_paths_dict_L1[i].status = "S"

\* patterns have been applied, and a path that one of them matches (it was
\* set to Export) is Ignore now, below a directory that is Ignore as well
C24_Witness ==
    /\ pc = "classify"
    /\ applied # <<>>
    /\ \E i, j \in DOMAIN CurDict :
           /\ CurDict[i].status = "I" /\ CurDict[j].status = "I"
           /\ IsStrictAncestor(CurDict[i].path, CurDict[j].path)
           /\ \E k \in DOMAIN applied : FullMatch(applied[k], CurDict[j].path)

(***************************************************************************)
(* TSOPPI: the patient directories that are processed (lines 572-615).     *)
(***************************************************************************)
\* the rows of a sample list whose sample passes the ID list and, if
\* required, the nomenclature
PassingRows(rows) ==
    {k \in DOMAIN rows :
        /\ OnAllowList(rows[k].sample_id)
        /\ require_inpred_nomenclature => is_InPreD_ID(rows[k].sample_id)}

\* the sample types (roles) of the passing rows
PassingRoles(rows) == {rows[k].sample_type : k \in PassingRows(rows)}

\* two rows of the list have the same sample_type
SharedType(rows) ==
    \E j, k \in DOMAIN rows : j # k /\ rows[j].sample_type = rows[k].sample_type

\* the step that reads the sample list of the entry at hand
ManifestRead ==
    /\ pc = "tsoppi_l1"
    /\ l1_index <= NumL1
    /\ l1_status[l1_index] = "pending"
    /\ l1_status'[l1_index] \in {"eligible", "ineligible"}

\* C25: A TSOPPI patient directory is processed iff the number of distinct
\* sample types among the samples that pass equals the number of data rows
\* of its sample list: a processed directory has only passing samples; a
\* directory whose samples all pass is skipped when two of them have the
\* same sample_type; a sample list without data rows makes the directory
\* eligible, with the patterns of T_general alone. A directory that is not
\* processed is Skip, nothing below it is listed and no pattern is applied.
C25_EligibleIffRolesEqualRows ==
    /\ [][ManifestRead =>
             LET rows == l1_manifest'[l1_index]
                 L1_path == L1Path(l1_index)
             IN  IF Cardinality(PassingRoles(rows)) = Len(rows)
                 THEN /\ l1_status'[l1_index] = "eligible"
                      /\ pc' = "classify" /\ work_i' = 1
                      /\ l1_index' = l1_index
                      /\ DOMAIN eligible_sample_dict' = PassingRoles(rows)
                      /\ WorkCategories' = SelectedFor(PassingRoles(rows))
                      /\ rows = <<>> =>
                             (WorkCategories' = {"T_general"} /\ Len(work') = 1)
                      /\ DictKeys(available_file_paths_dict_L1') =
                             {p \in AllPaths(fs_kind) :
                                  IsStrictAncestor(L1_path, p)}
                 ELSE /\ l1_status'[l1_index] = "ineligible"
                      /\ pc' = "tsoppi_l1" /\ l1_index' = l1_index + 1
                      /\ DictGet(available_file_paths_dict', L1_path) = "S"
                      /\ UNCHANGED <<available_file_paths_dict_L1, work,
                                     work_i, applied>>]_vars
    /\ [](\A i \in 1..NumL1 :
              LET rows == l1_manifest[i] IN
              /\ l1_status[i] = "eligible" =>
                     /\ PassingRows(rows) = DOMAIN rows
                     /\ ~SharedType(rows)
              /\ (l1_status[i] \in {"eligible", "ineligible"}
                  /\ PassingRows(rows) = DOMAIN rows /\ SharedType(rows))
                     => l1_status[i] = "ineligible"
              /\ l1_status[i] = "ineligible" =>
                     /\ DictGet(available_file_paths_dict, L1Path(i)) = "S"
                     /\ \A p \in DictKeys(available_file_paths_dict) :
                            ~IsStrictAncestor(L1Path(i), p)
                     /\ \A k \in DOMAIN applied :
                            ~IsPrefix(LitPath(L1Path(i)), applied[k]))

\* a directory whose two samples pass and share a sample type has been
\* skipped, and a directory with an empty sample list is being processed
C25_Witness ==
    /\ pc = "classify"
    /\ l1_manifest[l1_index] = <<>>
    /\ l1_status[l1_index] = "eligible"
    /\ \E i \in 1..NumL1 :
           /\ l1_status[i] = "ineligible"
           /\ Len(l1_manifest[i]) = 2
           /\ PassingRows(l1_manifest[i]) = DOMAIN l1_manifest[i]
           /\ l1_manifest[i][1].sample_id # l1_manifest[i][2].sample_id

============================================================================
